---------------------------- MODULE Spec2Model ----------------------------
(***************************************************************************)
(* The chess rule engine of chess_viewer.c: the 8x8 board of characters,   *)
(* the pseudo-legal move validator, check detection, the SAN parser with   *)
(* its trial-and-restore disambiguation, the move applicator, and the      *)
(* movetext tokenizer, and play_game that drives them: the automatic       *)
(* playback, the keys, the end-of-game presentation and the review.        *)
(*                                                                         *)
(* A character is a one-character string, the terminating NUL of a C       *)
(* string is "".  A C string is the sequence of its characters before the  *)
(* NUL.  An int that C uses as a truth value is kept as an integer.        *)
(***************************************************************************)
EXTENDS Integers, Sequences, FiniteSets, TLC

VARIABLES
    board,      \* char board[8][8]: board[r][f], row 0 is the eighth rank
    moves,      \* play_game: moves[0..move_count-1], the SAN tokens of the game
    index,      \* play_game: number of tokens consumed so far
    last,       \* what the latest playback step did (parse_san's locals and result)
    check,      \* the two is_in_check results of the latest draw_board
    probe,      \* a direct call of an engine function and its result
    move_buffer,            \* play_game: the movetext of the game
    header_result,          \* play_game: the Result tag of the game, "" when none
    result,                 \* play_game: result_buf or header_result
    has_loser,              \* play_game
    loser_is_white_local,   \* play_game
    is_draw,                \* play_game
    paused,                 \* play_game
    quit,                   \* play_game
    review_index,           \* play_game: the index of the review loop
    pause_hold,             \* play_game: the review loop is held
    show_loser_king,        \* global: the loser's king is drawn turned over
    show_draw_kings,        \* global: both kings are drawn tilted
    dim_board,              \* global: the board is drawn dimmed
    loser_is_white,         \* global: which king show_loser_king is about
    phase,      \* where play_game stands: "playback", "review" or "returned"
    applied     \* token index and side of every move applied since init_board

\* play_game's locals and the presentation globals
gameVars ==
    <<move_buffer, header_result, result, has_loser, loser_is_white_local, is_draw,
      paused, quit, review_index, pause_hold, show_loser_king, show_draw_kings,
      dim_board, loser_is_white, phase, applied>>

vars == <<board, moves, index, last, check, probe, gameVars>>

-----------------------------------------------------------------------------
(* Characters                                                              *)

BOARD_SIZE == 8

NUL == ""

Digits == <<"0", "1", "2", "3", "4", "5", "6", "7", "8", "9">>

Uppers ==
    <<"A", "B", "C", "D", "E", "F", "G", "H", "I", "J", "K", "L", "M",
      "N", "O", "P", "Q", "R", "S", "T", "U", "V", "W", "X", "Y", "Z">>

Lowers ==
    <<"a", "b", "c", "d", "e", "f", "g", "h", "i", "j", "k", "l", "m",
      "n", "o", "p", "q", "r", "s", "t", "u", "v", "w", "x", "y", "z">>

Range(s) == {s[i] : i \in DOMAIN s}

Chars == Range(Digits) \cup Range(Uppers) \cup Range(Lowers)
             \cup {NUL, "#", "+", "-", ".", "="}

Pos(s, c) == CHOOSE i \in DOMAIN s : s[i] = c

\* The character codes of the execution character set (ASCII).
Ascii ==
    [c \in Chars |->
        CASE c \in Range(Digits) -> 47 + Pos(Digits, c)
          [] c \in Range(Uppers) -> 64 + Pos(Uppers, c)
          [] c \in Range(Lowers) -> 96 + Pos(Lowers, c)
          [] c = NUL -> 0
          [] c = "#" -> 35
          [] c = "+" -> 43
          [] c = "-" -> 45
          [] c = "." -> 46
          [] c = "=" -> 61]

isupper(c) == IF c \in Range(Uppers) THEN 1 ELSE 0

islower(c) == IF c \in Range(Lowers) THEN 1 ELSE 0

isdigit(c) == IF c \in Range(Digits) THEN 1 ELSE 0

ToUpperTab == [c \in Chars |-> IF c \in Range(Lowers) THEN Uppers[Pos(Lowers, c)] ELSE c]

ToLowerTab == [c \in Chars |-> IF c \in Range(Uppers) THEN Lowers[Pos(Uppers, c)] ELSE c]

toupper(c) == ToUpperTab[c]

tolower(c) == ToLowerTab[c]

abs(x) == IF x < 0 THEN -x ELSE x

sign(x) == IF x > 0 THEN 1 ELSE IF x < 0 THEN -1 ELSE 0

\* !x of C
not(x) == IF x = 0 THEN 1 ELSE 0

is_white_piece(piece) == IF Ascii[piece] >= Ascii["A"] /\ Ascii[piece] <= Ascii["Z"] THEN 1 ELSE 0

-----------------------------------------------------------------------------
(* The board                                                               *)

Rows == 0 .. (BOARD_SIZE - 1)

Squares == Rows \X Rows

Str(s) == [r \in Rows |-> [f \in Rows |-> s[r + 1][f + 1]]]

\* const char *initial[] of init_board
initial ==
    << <<"r", "n", "b", "q", "k", "b", "n", "r">>,
      <<"p", "p", "p", "p", "p", "p", "p", "p">>,
      <<".", ".", ".", ".", ".", ".", ".", ".">>,
      <<".", ".", ".", ".", ".", ".", ".", ".">>,
      <<".", ".", ".", ".", ".", ".", ".", ".">>,
      <<".", ".", ".", ".", ".", ".", ".", ".">>,
      <<"P", "P", "P", "P", "P", "P", "P", "P">>,
      <<"R", "N", "B", "Q", "K", "B", "N", "R">> >>

\* init_board(): strcpy(board[i], initial[i]) for every row
init_board == Str(initial)

\* The bytes init_board writes, counted from the start of board: strcpy
\* copies the characters of the row and the terminating NUL
init_board_written ==
    UNION {(BOARD_SIZE * i) .. (BOARD_SIZE * i + Len(initial[i + 1])) : i \in Rows}


-----------------------------------------------------------------------------
(* MoveValidator                                                           *)

\* Faulty variant: the loop stops one square early: i < steps - 1
path_loop_short(b, from_r, from_f, dr, df, steps, i) ==
    \A j \in i .. (steps - 2) : b[from_r + j * dr][from_f + j * df] = "."

\* The loop of is_path_clear over i = 1 .. steps-1: no square on the way is
\* occupied.
path_loop(b, from_r, from_f, dr, df, steps, i) ==
    \A j \in i .. (steps - 1) : b[from_r + j * dr][from_f + j * df] = "."

is_path_clear(b, from_r, from_f, to_r, to_f) ==
    LET dr == sign(to_r - from_r)
        df == sign(to_f - from_f)
        steps == IF dr = 0 THEN abs(to_f - from_f) ELSE abs(to_r - from_r)
    IN  IF path_loop(b, from_r, from_f, dr, df, steps, 1) THEN 1 ELSE 0

\* Faulty variant: any occupied destination counts as an enemy
is_enemy_any(at_to, is_white) == at_to # "."

\* is_enemy = !is_empty && (is_white_piece(at_to) != is_white)
is_enemy_at(at_to, is_white) == at_to # "." /\ (is_white_piece(at_to) # is_white)

\* Faulty variant: the two-square advance without the home-row test
pawn_movement_any_row(b, from_r, from_f, to_r, to_f, is_white, capture) ==
    LET dr == abs(to_r - from_r)
        df == abs(to_f - from_f)
        dir == IF is_white # 0 THEN -1 ELSE 1
        at_to == b[to_r][to_f]
        is_empty == (at_to = ".")
        is_enemy == is_enemy_at(at_to, is_white)
        ep_rank == IF is_white # 0 THEN 3 ELSE 4
    IN  IF df = 0
        THEN IF capture # 0 THEN FALSE
             ELSE IF ~is_empty THEN FALSE
             ELSE IF dr = 1 /\ (to_r - from_r) = dir THEN TRUE
             ELSE IF dr = 2 /\ (to_r - from_r) = 2 * dir
                  THEN is_path_clear(b, from_r, from_f, to_r, to_f) # 0
                  ELSE FALSE
        ELSE IF df = 1 /\ dr = 1 /\ (to_r - from_r) = dir
             THEN IF capture # 0 /\ is_enemy THEN TRUE
                  ELSE IF capture # 0 /\ is_empty
                       THEN /\ from_r = ep_rank
                            /\ b[from_r][to_f] = (IF is_white # 0 THEN "p" ELSE "P")
                       ELSE FALSE
             ELSE FALSE

\* case 'P' of is_valid_move: movement_valid.  The two places that return 0 at
\* once (a straight move that is a capture, or onto an occupied square) give
\* FALSE, for which is_valid_move returns 0 as well.
pawn_movement(b, from_r, from_f, to_r, to_f, is_white, capture) ==
    LET dr == abs(to_r - from_r)
        df == abs(to_f - from_f)
        dir == IF is_white # 0 THEN -1 ELSE 1
        at_to == b[to_r][to_f]
        is_empty == (at_to = ".")
        is_enemy == is_enemy_at(at_to, is_white)
        ep_rank == IF is_white # 0 THEN 3 ELSE 4
    IN  IF df = 0
        THEN IF capture # 0 THEN FALSE
             ELSE IF ~is_empty THEN FALSE
             ELSE IF dr = 1 /\ (to_r - from_r) = dir THEN TRUE
             ELSE IF /\ dr = 2
                     /\ \/ (is_white # 0 /\ from_r = 6)
                        \/ (is_white = 0 /\ from_r = 1)
                     /\ (to_r - from_r) = 2 * dir
                  THEN is_path_clear(b, from_r, from_f, to_r, to_f) # 0
                  ELSE FALSE
        ELSE IF df = 1 /\ dr = 1 /\ (to_r - from_r) = dir
             THEN IF capture # 0 /\ is_enemy THEN TRUE
                  ELSE IF capture # 0 /\ is_empty
                       THEN /\ from_r = ep_rank
                            /\ b[from_r][to_f] = (IF is_white # 0 THEN "p" ELSE "P")
                       ELSE FALSE
             ELSE FALSE

\* case 'K' of is_valid_move
king_movement(dr, df) == dr <= 1 /\ df <= 1 /\ (dr + df > 0)

\* Faulty variant: the knight test as dr + df == 3: three squares straight pass
knight_movement_sum(dr, df) == dr + df = 3

\* case 'N' of is_valid_move
knight_movement(dr, df) == (dr = 1 /\ df = 2) \/ (dr = 2 /\ df = 1)

is_valid_move(b, piece, from_r, from_f, to_r, to_f, is_white, capture) ==
    LET dr == abs(to_r - from_r)
        df == abs(to_f - from_f)
        p == toupper(piece)
        at_to == b[to_r][to_f]
        is_empty == (at_to = ".")
        is_enemy == is_enemy_at(at_to, is_white)
        movement_valid ==
            CASE p = "P" -> pawn_movement(b, from_r, from_f, to_r, to_f, is_white, capture)
              [] p = "N" -> knight_movement(dr, df)
              [] p = "B" -> dr = df /\ dr > 0
                              /\ is_path_clear(b, from_r, from_f, to_r, to_f) # 0
              [] p = "R" -> (dr = 0 \/ df = 0) /\ (dr + df > 0)
                              /\ is_path_clear(b, from_r, from_f, to_r, to_f) # 0
              [] p = "Q" -> ((dr = df) \/ (dr = 0 \/ df = 0)) /\ (dr + df > 0)
                              /\ is_path_clear(b, from_r, from_f, to_r, to_f) # 0
              [] p = "K" -> king_movement(dr, df)
              [] OTHER -> FALSE
    IN  IF movement_valid
        THEN IF capture # 0
             THEN (IF is_enemy \/ (p = "P" /\ is_empty /\ movement_valid) THEN 1 ELSE 0)
             ELSE (IF is_empty THEN 1 ELSE 0)
        ELSE 0

\* The first loop of is_in_check: the first square in scan order (k = r * 8 + f)
\* that holds the king; <<-1, -1>> when there is none.
find_king(b, king) ==
    LET at == {k \in 0 .. (BOARD_SIZE * BOARD_SIZE - 1) :
                  b[k \div BOARD_SIZE][k % BOARD_SIZE] = king}
    IN  IF at = {} THEN <<-1, -1>>
        ELSE LET k == CHOOSE x \in at : \A y \in at : x <= y
             IN  <<k \div BOARD_SIZE, k % BOARD_SIZE>>

\* Faulty variant: the attack test made as a quiet move instead of a capture
attack_loop_quiet(b, king_r, king_f, opponent_is_white) ==
    IF \E r \in Rows, f \in Rows :
          /\ ~(b[r][f] = "." \/ (is_white_piece(b[r][f]) # opponent_is_white))
          /\ is_valid_move(b, b[r][f], r, f, king_r, king_f, opponent_is_white, 0) # 0
    THEN 1 ELSE 0

\* The second loop of is_in_check: 1 as soon as one opponent piece passes
\* is_valid_move to the king's square as a capture.
attack_loop(b, king_r, king_f, opponent_is_white) ==
    IF \E r \in Rows, f \in Rows :
          /\ ~(b[r][f] = "." \/ (is_white_piece(b[r][f]) # opponent_is_white))
          /\ is_valid_move(b, b[r][f], r, f, king_r, king_f, opponent_is_white, 1) # 0
    THEN 1 ELSE 0

is_in_check(b, is_white) ==
    LET king == IF is_white # 0 THEN "K" ELSE "k"
        kpos == find_king(b, king)
        king_r == kpos[1]
        king_f == kpos[2]
        opponent_is_white == not(is_white)
    IN  IF king_r = -1 THEN 0
        ELSE attack_loop(b, king_r, king_f, opponent_is_white)

-----------------------------------------------------------------------------
(* BoardState: apply_move                                                  *)

\* Move m = {0}
Move0 == [from_r |-> 0, from_f |-> 0, to_r |-> 0, to_f |-> 0, promo |-> NUL]

\* board[r][f] = c
Put(b, r, f, c) == [b EXCEPT ![r][f] = c]

\* Faulty variant: the captured pawn looked for one row beyond the destination
en_passant_removal_ahead(b, m, dir) == Put(b, m.to_r + dir, m.to_f, ".")

\* board[m->to_r - dir][m->to_f] = '.'
en_passant_removal(b, m, dir) == Put(b, m.to_r - dir, m.to_f, ".")

\* Faulty variant: the promotion piece always in upper case
promoted_piece_upper(promo, is_white) == toupper(promo)

\* is_white ? toupper(m->promo) : tolower(m->promo)
promoted_piece(promo, is_white) ==
    IF is_white # 0 THEN toupper(promo) ELSE tolower(promo)

\* Faulty variant: the rook is put beside the king and the corner keeps its piece
castle_rook_corner_kept(b, m, is_white) ==
    Put(b, m.from_r, IF m.to_f > m.from_f THEN 5 ELSE 3, IF is_white # 0 THEN "R" ELSE "r")

\* The castling branch of apply_move: board[m->from_r][rook_to] = rook,
\* board[m->from_r][rook_from] = '.'
castle_rook(b, m, is_white) ==
    LET rook_from == IF m.to_f > m.from_f THEN 7 ELSE 0
        rook_to == IF m.to_f > m.from_f THEN 5 ELSE 3
        rook == IF is_white # 0 THEN "R" ELSE "r"
    IN  Put(Put(b, m.from_r, rook_to, rook), m.from_r, rook_from, ".")

apply_move(b, m, is_white) ==
    LET piece == b[m.from_r][m.from_f]
        captured == b[m.to_r][m.to_f]
        dir == IF is_white # 0 THEN -1 ELSE 1
        b1 == IF toupper(piece) = "P" /\ abs(m.from_f - m.to_f) = 1 /\ captured = "."
              THEN en_passant_removal(b, m, dir)
              ELSE b
        b2 == Put(b1, m.to_r, m.to_f,
                  IF m.promo # NUL THEN promoted_piece(m.promo, is_white) ELSE piece)
        b3 == Put(b2, m.from_r, m.from_f, ".")
    IN  IF toupper(piece) = "K" /\ abs(m.from_f - m.to_f) = 2
        THEN castle_rook(b3, m, is_white)
        ELSE b3

-----------------------------------------------------------------------------
(* SanParser: parse_san                                                    *)

\* clean_san[i], i counted from 0; the terminating NUL at i = strlen
At(s, i) == IF i >= 0 /\ i < Len(s) THEN s[i + 1] ELSE NUL

\* strchr(s, c) as an index counted from 0, -1 for a null pointer
strchr(s, c) ==
    IF \E i \in DOMAIN s : s[i] = c
    THEN (CHOOSE i \in DOMAIN s : s[i] = c /\ \A j \in 1 .. (i - 1) : s[j] # c) - 1
    ELSE -1

\* The squares in the order of the nested loops r = 0..7, f = 0..7
ScanOrder == [k \in 1 .. (BOARD_SIZE * BOARD_SIZE) |->
                 <<(k - 1) \div BOARD_SIZE, (k - 1) % BOARD_SIZE>>]

\* for (i = hint_start; i < len - 2; i++) if (clean_san[i] == 'x') { capture_pos = i; break; }
RECURSIVE capture_loop(_, _, _)
capture_loop(s, len, i) ==
    IF ~(i < len - 2) THEN 0
    ELSE IF At(s, i) = "x" THEN i
    ELSE capture_loop(s, len, i + 1)

\* Faulty variant: the candidate loop without the is_valid_move test
find_candidates_any_move(b, target_piece, hint_f, hint_r, to_r, to_f, is_white, capture) ==
    SelectSeq(ScanOrder,
        LAMBDA sq :
            /\ b[sq[1]][sq[2]] = target_piece
            /\ ~((hint_f >= 0 /\ sq[2] # hint_f) \/ (hint_r >= 0 /\ sq[1] # hint_r)))

\* Faulty variant: the candidate loop without the hint filter
find_candidates_no_hint(b, target_piece, hint_f, hint_r, to_r, to_f, is_white, capture) ==
    SelectSeq(ScanOrder,
        LAMBDA sq :
            /\ b[sq[1]][sq[2]] = target_piece
            /\ is_valid_move(b, target_piece, sq[1], sq[2], to_r, to_f, is_white, capture) # 0)

\* The candidate loop of parse_san: the squares that hold target_piece, pass
\* the hint and is_valid_move, in scan order.
find_candidates(b, target_piece, hint_f, hint_r, to_r, to_f, is_white, capture) ==
    SelectSeq(ScanOrder,
        LAMBDA sq :
            /\ b[sq[1]][sq[2]] = target_piece
            /\ ~((hint_f >= 0 /\ sq[2] # hint_f) \/ (hint_r >= 0 /\ sq[1] # hint_r))
            /\ is_valid_move(b, target_piece, sq[1], sq[2], to_r, to_f, is_white, capture) # 0)

\* Faulty variant: the restore left out: the live board keeps the trial move
restore_skipped(cur, temp_board) == cur

\* memcpy(board, temp_board, sizeof(board)): the board after the restore
restore_board(cur, temp_board) == temp_board

\* Faulty variant: the first candidate is taken without the king-safety test
resolve_untested(b, candidates, i, m, is_white) ==
    [ret |-> 1, board |-> b,
     m |-> [m EXCEPT !.from_r = candidates[1][1], !.from_f = candidates[1][2]]]

\* Faulty variant: the trial tests the opponent's king instead of the mover's
resolve_wrong_king(b, candidates, i, m, is_white) ==
    LET safe == {k \in DOMAIN candidates :
                   is_in_check(apply_move(b, [m EXCEPT !.from_r = candidates[k][1],
                                                        !.from_f = candidates[k][2]],
                                          is_white), not(is_white)) = 0}
    IN  IF safe = {} THEN [ret |-> 0, m |-> m, board |-> b]
        ELSE LET k == CHOOSE x \in safe : \A y \in safe : x <= y
             IN  [ret |-> 1, board |-> b,
                  m |-> [m EXCEPT !.from_r = candidates[k][1],
                                  !.from_f = candidates[k][2]]]

\* The ambiguity loop of parse_san from candidate i (counted from 1) on, with
\* b the live board: apply on the live board, test, restore.
RECURSIVE resolve_ambiguity(_, _, _, _, _)
resolve_ambiguity(b, candidates, i, m, is_white) ==
    IF i > Len(candidates) THEN [ret |-> 0, m |-> m, board |-> b]
    ELSE LET temp_board == b
             temp_m == [m EXCEPT !.from_r = candidates[i][1], !.from_f = candidates[i][2]]
             tried == apply_move(b, temp_m, is_white)
         IN  IF is_in_check(tried, is_white) = 0
             THEN [ret |-> 1, m |-> temp_m, board |-> restore_board(tried, temp_board)]
             ELSE resolve_ambiguity(restore_board(tried, temp_board),
                                    candidates, i + 1, m, is_white)

\* What parse_san hands back when it returns before the candidate loop
Early(b, ret, m, stage) ==
    [ret |-> ret, m |-> m, board |-> b, stage |-> stage, candidates |-> <<>>,
     target_piece |-> NUL, hint_f |-> -1, hint_r |-> -1, capture |-> 0]

\* Faulty variant: the digit spelling 0-0 is not taken for castling
Castles_letters(s) == s = <<"O", "-", "O">>

\* strcmp(clean_san, "O-O") == 0 || strcmp(clean_san, "0-0") == 0
Castles(s) == s = <<"O", "-", "O">> \/ s = <<"0", "-", "0">>

\* strcmp(clean_san, "O-O-O") == 0 || strcmp(clean_san, "0-0-0") == 0
LongCastles(s) == s = <<"O", "-", "O", "-", "O">> \/ s = <<"0", "-", "0", "-", "0">>

\* The end of parse_san, with the candidates found: none fails, one is
\* returned as it is, more go through the ambiguity loop.
choose_candidate(b, m2, candidates, is_white, target_piece, hint_f, hint_r, capture) ==
    (IF Len(candidates) = 0
     THEN [ret |-> 0, m |-> m2, board |-> b]
     ELSE IF Len(candidates) = 1
     THEN [ret |-> 1, board |-> b,
           m |-> [m2 EXCEPT !.from_r = candidates[1][1],
                            !.from_f = candidates[1][2]]]
     ELSE resolve_ambiguity(b, candidates, 1, m2, is_white))
    @@ [stage |-> "resolved", candidates |-> candidates,
        target_piece |-> target_piece, hint_f |-> hint_f,
        hint_r |-> hint_r, capture |-> capture]

\* parse_san from int capture = (capture_pos > 0) on: the hint, the target
\* piece and the candidate loop
parse_hint(b, m2, clean_san, len, is_white, piece, hint_start, capture_pos) ==
    LET capture == IF capture_pos > 0 THEN 1 ELSE 0
        hint_len == (IF capture_pos > 0 THEN capture_pos ELSE len - 2) - hint_start
        hint_str == IF hint_len > 0
                    THEN SubSeq(clean_san, hint_start + 1, hint_start + hint_len)
                    ELSE <<>>
        hl == Len(hint_str)
        hint_f == IF hl = 1
                  THEN (IF islower(hint_str[1]) # 0
                        THEN Ascii[hint_str[1]] - Ascii["a"] ELSE -1)
                  ELSE IF hl = 2 THEN Ascii[hint_str[1]] - Ascii["a"] ELSE -1
        hint_r == IF hl = 1
                  THEN (IF islower(hint_str[1]) = 0 /\ isdigit(hint_str[1]) # 0
                        THEN 7 - (Ascii[hint_str[1]] - Ascii["1"]) ELSE -1)
                  ELSE IF hl = 2 THEN 7 - (Ascii[hint_str[2]] - Ascii["1"]) ELSE -1
        target_piece == IF is_white # 0 THEN piece ELSE tolower(piece)
    IN  choose_candidate(b, m2,
                         find_candidates(b, target_piece, hint_f, hint_r,
                                         m2.to_r, m2.to_f, is_white, capture),
                         is_white, target_piece, hint_f, hint_r, capture)

\* parse_san from char piece = 'P' on: the piece letter and the capture mark
parse_piece(b, m2, clean_san, len, is_white) ==
    LET has_piece == isupper(At(clean_san, 0)) # 0
                        /\ At(clean_san, 0) \in {"R", "N", "B", "Q", "K"}
        piece == IF has_piece THEN At(clean_san, 0) ELSE "P"
        hint_start == IF has_piece THEN 1 ELSE 0
    IN  parse_hint(b, m2, clean_san, len, is_white, piece, hint_start,
                   capture_loop(clean_san, len, hint_start))

\* parse_san from if (len < 2) on: the destination square
parse_destination(b, m1, clean_san, is_white) ==
    LET len == Len(clean_san)
        to_f == Ascii[At(clean_san, len - 2)] - Ascii["a"]
        to_r == 7 - (Ascii[At(clean_san, len - 1)] - Ascii["1"])
    IN  IF len < 2 THEN Early(b, 0, m1, "short")
        ELSE IF to_r < 0 \/ to_r >= 8 \/ to_f < 0 \/ to_f >= 8
        THEN Early(b, 0, m1, "offboard")
        ELSE parse_piece(b, [m1 EXCEPT !.to_r = to_r, !.to_f = to_f],
                         clean_san, len, is_white)

\* parse_san(san, is_white, &m) on the board b with *m = m0 on entry: the
\* return value, *m and the board on return, with the locals the claims are
\* about.  The token has 1 to 15 characters and a hint of at most 3.
parse_san(b, san, is_white, m0) ==
    LET len0 == Len(san)
        stripped == IF san[len0] = "+" \/ san[len0] = "#"
                    THEN SubSeq(san, 1, len0 - 1) ELSE san
        mp == [m0 EXCEPT !.promo = NUL]
        home == IF is_white # 0 THEN 7 ELSE 0
        eq == strchr(stripped, "=")
    IN  IF Castles(stripped)
        THEN Early(b, 1, [mp EXCEPT !.from_r = home, !.from_f = 4,
                                     !.to_r = home, !.to_f = 6], "castle")
        ELSE IF LongCastles(stripped)
        THEN Early(b, 1, [mp EXCEPT !.from_r = home, !.from_f = 4,
                                     !.to_r = home, !.to_f = 2], "castle")
        ELSE parse_destination(b,
                               IF eq >= 0 THEN [mp EXCEPT !.promo = At(stripped, eq + 1)]
                               ELSE mp,
                               IF eq >= 0 THEN SubSeq(stripped, 1, eq) ELSE stripped,
                               is_white)

-----------------------------------------------------------------------------
(* MovetextTokenizer: clean_line, extract_san_token, build_move_list       *)

MAX_MOVES == 8192

MOVE_TEXT_LEN == 32

RESULT_LEN == 16

\* sizeof(temp_buffer) in build_move_list
TEMP_BUFFER_LEN == 65536

\* The first n characters of s: strncpy(dst, s, n) followed by dst[n] = 0
strncpy(s, n) == IF Len(s) > n THEN SubSeq(s, 1, n) ELSE s

\* Faulty variant: the line comment runs to the end of the string
skip_line_to_end(line, i) == Len(line)

\* while (*line && *line != '\n') line++: the index the scan stops at
skip_line(line, i) ==
    CHOOSE j \in i .. Len(line) :
        /\ (At(line, j) = NUL \/ At(line, j) = "\n")
        /\ \A k \in i .. (j - 1) : At(line, k) # "\n"

\* The while loop of clean_line with line at index i and out holding what
\* has been written so far
RECURSIVE clean_loop(_, _, _, _, _)
clean_loop(line, i, in_comment, in_var, out) ==
    LET c == At(line, i)
    IN  IF c = NUL THEN out
        ELSE IF c = "{" THEN clean_loop(line, i + 1, 1, in_var, out)
        ELSE IF c = "}" THEN clean_loop(line, i + 1, 0, in_var, out)
        ELSE IF c = "(" THEN clean_loop(line, i + 1, in_comment, 1, out)
        ELSE IF c = ")" THEN clean_loop(line, i + 1, in_comment, 0, out)
        ELSE IF c = ";"
        THEN clean_loop(line, skip_line(line, i), in_comment, in_var, out)
        ELSE IF in_comment = 0 /\ in_var = 0
        THEN clean_loop(line, i + 1, in_comment, in_var, Append(out, c))
        ELSE clean_loop(line, i + 1, in_comment, in_var, out)

\* clean_line(line): the line as it stands after the call
clean_line(line) == clean_loop(line, 0, 0, 0, <<>>)

\* while (isdigit(*q)) q++
digits_end(token, q) ==
    CHOOSE j \in q .. Len(token) :
        /\ isdigit(At(token, j)) = 0
        /\ \A k \in q .. (j - 1) : isdigit(At(token, k)) # 0

\* while (*p == '.') p++
dots_end(token, p) ==
    CHOOSE j \in p .. Len(token) :
        /\ At(token, j) # "."
        /\ \A k \in p .. (j - 1) : At(token, k) = "."

\* Faulty variant: leading digits are dropped whatever follows them
move_number_end_any(token) == dots_end(token, digits_end(token, 0))

\* The first part of extract_san_token: p when the move number is passed
move_number_end(token) ==
    IF isdigit(At(token, 0)) # 0
    THEN LET q == digits_end(token, 0)
         IN  IF At(token, q) = "." THEN dots_end(token, q) ELSE 0
    ELSE dots_end(token, 0)

\* strcspn(s + p, reject)
strcspn(s, p, reject) ==
    (CHOOSE j \in p .. Len(s) :
        /\ (At(s, j) = NUL \/ At(s, j) \in reject)
        /\ \A k \in p .. (j - 1) : At(s, k) \notin reject) - p

\* extract_san_token(token, out, out_size): the return value and out
extract_san_token(token, out, out_size) ==
    LET p == move_number_end(token)
        len0 == strcspn(token, p, {"!", "?"})
        len == IF len0 >= out_size THEN out_size - 1 ELSE len0
    IN  IF At(token, p) = NUL THEN [ret |-> 0, out |-> out]
        ELSE IF len0 = 0 THEN [ret |-> 0, out |-> out]
        ELSE [ret |-> 1, out |-> SubSeq(token, p + 1, p + len)]

\* Faulty variant: only the decisive results end the movetext
is_result_token_decisive(san) ==
    IF san = <<"1", "-", "0">> \/ san = <<"0", "-", "1">> THEN 1 ELSE 0

is_result_token(san) ==
    IF \/ san = <<"1", "-", "0">>
       \/ san = <<"0", "-", "1">>
       \/ san = <<"1", "/", "2", "-", "1", "/", "2">>
       \/ san = <<"*">>
    THEN 1 ELSE 0

\* The delimiters of strtok(..., " \t\n\r")
Delims == {" ", "\t", "\n", "\r"}

\* The tokens the successive strtok calls return, from index i of s on
RECURSIVE strtok(_, _)
strtok(s, i) ==
    LET start == CHOOSE j \in i .. Len(s) :
                    /\ (At(s, j) = NUL \/ At(s, j) \notin Delims)
                    /\ \A k \in i .. (j - 1) : At(s, k) \in Delims
        stop == CHOOSE j \in start .. Len(s) :
                    /\ (At(s, j) = NUL \/ At(s, j) \in Delims)
                    /\ \A k \in start .. (j - 1) : At(s, k) \notin Delims
    IN  IF At(s, start) = NUL THEN <<>>
        ELSE <<SubSeq(s, start + 1, stop)>>
                \o strtok(s, IF At(s, stop) = NUL THEN stop ELSE stop + 1)

\* The while loop of build_move_list from the k-th token on
RECURSIVE build_loop(_, _, _, _, _, _)
build_loop(tokens, k, list, max_moves, result_out, result_out_size) ==
    IF k > Len(tokens) THEN [count |-> Len(list), moves |-> list, result_out |-> result_out]
    ELSE LET ex == extract_san_token(tokens[k], <<>>, MOVE_TEXT_LEN)
         IN  IF ex.ret = 0
             THEN build_loop(tokens, k + 1, list, max_moves, result_out, result_out_size)
             ELSE IF is_result_token(ex.out) # 0
             THEN [count |-> Len(list), moves |-> list,
                   result_out |-> IF result_out_size > 0
                                  THEN strncpy(ex.out, result_out_size - 1)
                                  ELSE result_out]
             ELSE build_loop(tokens, k + 1,
                             IF Len(list) < max_moves
                             THEN Append(list, strncpy(ex.out, MOVE_TEXT_LEN - 1))
                             ELSE list,
                             max_moves, result_out, result_out_size)

\* build_move_list(move_buffer, moves, max_moves, result_out, result_out_size):
\* the count returned, moves[0 .. count-1] and result_out
build_move_list(buffer, max_moves, result_out_size) ==
    build_loop(strtok(strncpy(buffer, TEMP_BUFFER_LEN - 1), 0), 1, <<>>,
               max_moves, <<>>, result_out_size)

\* loser_from_result(result, &loser): the return value and *out_loser_is_white,
\* which keeps its value when 0 is returned
loser_from_result(res, loser) ==
    IF res = <<"1", "-", "0">> THEN [ret |-> 1, loser |-> 0]
    ELSE IF res = <<"0", "-", "1">> THEN [ret |-> 1, loser |-> 1]
    ELSE [ret |-> 0, loser |-> loser]

is_draw_result(res) ==
    IF res = <<"1", "/", "2", "-", "1", "/", "2">> THEN 1 ELSE 0

-----------------------------------------------------------------------------
(* The games played back.  A game is the token list build_move_list hands  *)
(* to play_game: the first PrefixLen tokens of one of the lines below,     *)
(* followed by at most MaxFree tokens of FreeTokens.                       *)

\* the c3 knight is pinned by the b4 bishop, the g1 knight is not
GamePinned ==
    << <<"e", "4">>, <<"e", "5">>, <<"N", "c", "3">>,
      <<"B", "b", "4">>, <<"d", "3">>, <<"a", "6">>,
      <<"N", "e", "2">> >>

\* only the pinned c3 knight reaches d5
GamePinnedOne ==
    << <<"e", "4">>, <<"e", "5">>, <<"N", "c", "3">>,
      <<"B", "b", "4">>, <<"d", "3">>, <<"a", "6">>,
      <<"N", "d", "5">> >>

\* both knights reach e2 and neither is pinned
GameBothSafe ==
    << <<"e", "4">>, <<"e", "5">>, <<"N", "c", "3">>,
      <<"a", "6">>, <<"N", "e", "2">> >>

\* the king is in check from h4 whichever knight goes to e2
GameBothUnsafe ==
    << <<"e", "4">>, <<"e", "5">>, <<"N", "c", "3">>,
      <<"Q", "h", "4">>, <<"f", "3">>, <<"a", "6">>,
      <<"N", "e", "2">> >>

\* White takes en passant on d6
GameEpWhite ==
    << <<"e", "4">>, <<"a", "6">>, <<"e", "5">>,
      <<"d", "5">>, <<"e", "x", "d", "6">> >>

\* Black takes en passant on d3
GameEpBlack ==
    << <<"a", "3">>, <<"e", "5">>, <<"a", "4">>,
      <<"e", "4">>, <<"d", "4">>, <<"e", "x", "d", "3">> >>

\* a White pawn promotes on e8
GamePromoWhite ==
    << <<"d", "4">>, <<"e", "5">>, <<"d", "x", "e", "5">>,
      <<"K", "e", "7">>, <<"e", "6">>, <<"K", "d", "6">>,
      <<"e", "7">>, <<"K", "c", "6">>, <<"e", "8", "=", "Q">> >>

\* a Black pawn takes on c1 and promotes
GamePromoBlack ==
    << <<"a", "3">>, <<"e", "5">>, <<"a", "4">>,
      <<"e", "4">>, <<"h", "3">>, <<"e", "3">>,
      <<"h", "4">>, <<"e", "x", "d", "2">>, <<"h", "5">>,
      <<"d", "x", "c", "1", "=", "N">> >>

\* both sides castle
GameCastle ==
    << <<"e", "4">>, <<"e", "5">>, <<"N", "f", "3">>,
      <<"N", "c", "6">>, <<"B", "c", "4">>, <<"B", "c", "5">>,
      <<"O", "-", "O">>, <<"O", "-", "O", "-", "O">> >>

\* the Black king is taken: no Black king is left
GameKingTaken ==
    << <<"e", "4">>, <<"e", "5">>, <<"Q", "h", "5">>,
      <<"K", "e", "7">>, <<"Q", "x", "e", "5">>, <<"a", "6">>,
      <<"Q", "x", "e", "7">> >>

\* the third token does not parse
GameBadToken ==
    << <<"e", "4">>, <<"e", "5">>, <<"K", "e", "3">>,
      <<"d", "5">>, <<"e", "x", "d", "5">> >>

\* the king's knight comes out first
GameKnightFirst ==
    << <<"N", "f", "3">>, <<"N", "f", "6">>, <<"e", "4">> >>

\* White castles short after the h1 rook has left its corner
GameRookAway ==
    << <<"h", "4">>, <<"a", "5">>, <<"R", "h", "3">>,
      <<"a", "4">>, <<"N", "f", "3">>, <<"b", "6">>,
      <<"g", "3">>, <<"c", "6">>, <<"B", "g", "2">>,
      <<"d", "6">>, <<"O", "-", "O">> >>

Lines ==
    {GamePinned, GamePinnedOne, GameBothSafe, GameBothUnsafe,
     GameEpWhite, GameEpBlack, GamePromoWhite, GamePromoBlack,
     GameCastle, GameKingTaken, GameBadToken, GameKnightFirst,
     GameRookAway}

FreeTokens ==
    {<<"N", "e", "2">>, <<"N", "c", "e", "2">>, <<"N", "1", "e", "2">>,
     <<"N", "g", "1", "e", "2">>, <<"N", "d", "5">>, <<"Q", "h", "4", "+">>,
     <<"Q", "x", "e", "5">>, <<"K", "d", "7">>, <<"e", "x", "d", "5">>,
     <<"d", "x", "e", "8", "=", "R">>, <<"e", "8", "=", "Q", "+">>, <<"O", "-", "O">>,
     <<"a", "9">>, <<"x">>,
     <<"0", "-", "0">>, <<"O", "-", "O", "#">>, <<"O", "-", "O", "-", "O", "+">>,
     <<"0", "-", "0", "-", "0", "#">>, <<"O", "-", "O", "+", "+">>,
     <<"e", "5", "=", "Z">>, <<"N", "9", "e", "2">>}

MaxFree == 1

RECURSIVE Tails(_)
Tails(n) ==
    IF n = 0 THEN {<<>>}
    ELSE Tails(n - 1) \cup {Append(t, x) : t \in Tails(n - 1), x \in FreeTokens}

\* every prefix of every line
Prefixes == UNION {{SubSeq(g, 1, k) : k \in 0 .. Len(g)} : g \in Lines}

Games == {p \o t : p \in Prefixes, t \in Tails(MaxFree)}

-----------------------------------------------------------------------------
(* play_game: the automatic playback                                       *)

NoProbe == [kind |-> "none"]

NoStep == [kind |-> "none"]

\* render_board, called by draw_board: the two check frames
draw_board(b) == [white |-> is_in_check(b, 1), black |-> is_in_check(b, 0)]

\* The loop of replay_moves_to_index at token i (counted from 0) on the board
\* b: the board it leaves, the moves it applied and whether it broke off
RECURSIVE replay_loop(_, _, _, _, _, _)

\* The body of the loop once parse_san has answered
replay_step(parsed, list, i, limit, is_white, done) ==
    IF parsed.ret = 0
    THEN [board |-> parsed.board, applied |-> done, failed |-> 1]
    ELSE replay_loop(apply_move(parsed.board, parsed.m, is_white), list,
                     i + 1, limit, not(is_white),
                     Append(done, [token |-> i, is_white |-> is_white]))

replay_loop(b, list, i, limit, is_white, done) ==
    IF ~(i < limit) THEN [board |-> b, applied |-> done, failed |-> 0]
    ELSE replay_step(parse_san(b, list[i + 1], is_white, Move0),
                     list, i, limit, is_white, done)

\* replay_moves_to_index(list, move_count, idx)
replay_moves_to_index(list, move_count, idx) ==
    replay_loop(init_board, list, 0, IF idx < move_count THEN idx ELSE move_count,
                1, <<>>)

\* Faulty variant: the header's result is preferred to the movetext's
choose_result_header_first(result_buf, header) ==
    IF header # <<>> THEN header ELSE result_buf

\* result = (result_buf[0] != '\0') ? result_buf : header_result
choose_result(result_buf, header) ==
    IF result_buf # <<>> THEN result_buf ELSE header

\* The values no play_game has touched
NoGame ==
    /\ move_buffer = <<>>
    /\ header_result = <<>>
    /\ result = <<>>
    /\ has_loser = 0
    /\ loser_is_white_local = 0
    /\ is_draw = 0
    /\ paused = 0
    /\ quit = 0
    /\ review_index = 0
    /\ pause_hold = 0
    /\ show_loser_king = 0
    /\ show_draw_kings = 0
    /\ dim_board = 0
    /\ loser_is_white = 0
    /\ phase = "none"
    /\ applied = <<>>

\* play_game(text, header) up to the first pass of its playback loop
PlayGameEntry(text, header) ==
    LET built == build_move_list(text, MAX_MOVES, RESULT_LEN)
        res == choose_result(built.result_out, header)
        lost == IF res # <<>> THEN loser_from_result(res, 0)
                ELSE [ret |-> 0, loser |-> 0]
    IN  /\ move_buffer = text
        /\ header_result = header
        /\ moves = built.moves
        /\ result = res
        /\ has_loser = lost.ret
        /\ loser_is_white_local = lost.loser
        /\ is_draw = (IF res # <<>> THEN is_draw_result(res) ELSE 0)
        /\ board = init_board
        /\ check = draw_board(init_board)
        /\ index = 0
        /\ paused = 0
        /\ quit = 0
        /\ review_index = 0
        /\ pause_hold = 0
        /\ show_loser_king = 0
        /\ show_draw_kings = 0
        /\ dim_board = 0
        /\ phase = "playback"
        /\ applied = <<>>
        /\ last = NoStep
        /\ probe = NoProbe

\* The words joined by the separator, with one separator in front
RECURSIVE JoinWords(_, _)
JoinWords(words, sep) ==
    IF words = <<>> THEN <<>>
    ELSE sep \o Head(words) \o JoinWords(Tail(words), sep)

\* The movetext that holds the tokens and, when res is not empty, the result
Movetext(tokens, res) ==
    JoinWords(IF res = <<>> THEN tokens ELSE Append(tokens, res), <<" ">>)

Init ==
    /\ loser_is_white = 0
    /\ \E g \in Games : PlayGameEntry(Movetext(g, <<>>), <<>>)

\* Faulty variant: the token that does not parse is tried again
next_index_on_success(idx, ret) == IF ret # 0 THEN idx + 1 ELSE idx

\* index++ behind the parse, whatever parse_san returned
next_index(idx, ret) == idx + 1

\* One pass of the playback loop that plays a token: parse_san, then on
\* success animate_move, apply_move and draw_board; index++ either way.  ev
\* is the key that arrives while animate_move runs: "space" is buffered and
\* pauses the game after the move, "quit" makes play_game return at once.
AutoAdvanceWith(ev) ==
    /\ phase = "playback"
    /\ paused = 0
    /\ index < Len(moves)
    /\ LET is_white == IF index % 2 = 0 THEN 1 ELSE 0
           san == moves[index + 1]
       IN  \E parsed \in {parse_san(board, san, is_white, Move0)} :
           \E animated \in {parsed.ret # 0
                             /\ parsed.board[parsed.m.from_r][parsed.m.from_f] # "."} :
           \E moved \in {IF parsed.ret # 0
                      THEN apply_move(parsed.board, parsed.m, is_white)
                      ELSE parsed.board} :
           /\ ev # "none" => animated
           /\ last' = [kind |-> "advance", san |-> san, is_white |-> is_white,
                       before |-> board, parsed |-> parsed]
           /\ IF ev = "quit"
              THEN /\ board' = parsed.board
                   /\ quit' = 1
                   /\ phase' = "returned"
                   /\ dim_board' = 0
                   /\ UNCHANGED <<check, index, paused, applied>>
              ELSE /\ board' = moved
                   /\ check' = IF parsed.ret # 0 THEN draw_board(moved) ELSE check
                   /\ index' = next_index(index, parsed.ret)
                   /\ paused' = IF ev = "space" THEN 1 ELSE paused
                   /\ dim_board' = IF ev = "space" THEN 1 ELSE dim_board
                   /\ applied' = IF parsed.ret # 0
                                 THEN Append(applied, [token |-> index,
                                                       is_white |-> is_white])
                                 ELSE applied
                   /\ UNCHANGED <<quit, phase>>
    /\ UNCHANGED <<moves, probe, move_buffer, header_result, result, has_loser,
                   loser_is_white_local, is_draw, review_index, pause_hold,
                   show_loser_king, show_draw_kings, loser_is_white>>

\* The pass of the playback loop during which no key arrives
AutoAdvance == AutoAdvanceWith("none")

Next == AutoAdvance

Spec == Init /\ [][Next]_vars

-----------------------------------------------------------------------------
(* play_game as a whole: the keys during the playback, the end-of-game      *)
(* presentation and the review loop.  The flip of the view (key f) changes  *)
(* what is drawn, not the state kept here.                                  *)

\* a first token that does not parse
GameBadFirst ==
    << <<"K", "e", "3">>, <<"e", "5">>, <<"N", "f", "3">> >>

ReviewLines == {GameBadToken, GameBadFirst, GameKnightFirst, GameEpWhite}

ReviewGames == UNION {{SubSeq(g, 1, k) : k \in 0 .. Len(g)} : g \in ReviewLines}

ResultsInText ==
    {<<>>, <<"1", "-", "0">>, <<"0", "-", "1">>, <<"*">>,
     <<"1", "/", "2", "-", "1", "/", "2">>}

HeaderResults ==
    {<<>>, <<"1", "-", "0">>, <<"0", "-", "1">>,
     <<"1", "/", "2", "-", "1", "/", "2">>}

\* loser_is_white keeps the value the game before left in it
InitGame ==
    /\ loser_is_white \in {0, 1}
    /\ \E g \in ReviewGames, res \in ResultsInText, header \in HeaderResults :
          PlayGameEntry(Movetext(g, res), header)

\* What a call of replay_moves_to_index(moves, move_count, idx) leaves
Replay(idx) ==
    \E replayed \in {replay_moves_to_index(moves, Len(moves), idx)} :
        /\ board' = replayed.board
        /\ check' = draw_board(replayed.board)
        /\ applied' = replayed.applied
        /\ last' = [kind |-> "replay", index |-> idx, before |-> board,
                    failed |-> replayed.failed]

\* show_loser_king = 0; show_draw_kings = 0; dim_board = 0 when play_game
\* returns
Return ==
    /\ phase' = "returned"
    /\ show_loser_king' = 0
    /\ show_draw_kings' = 0
    /\ dim_board' = 0

\* The animated playback with the keys that may arrive during the animation
AutoAdvanceKeys == \E ev \in {"none", "space", "quit"} : AutoAdvanceWith(ev)

\* SDLK_SPACE in the playback loop
KeySpace ==
    /\ phase = "playback"
    /\ paused' = 1 - paused
    /\ dim_board' = 1 - paused
    /\ check' = draw_board(board)
    /\ UNCHANGED <<board, moves, index, last, probe, move_buffer, header_result,
                   result, has_loser, loser_is_white_local, is_draw, quit,
                   review_index, pause_hold, show_loser_king, show_draw_kings,
                   loser_is_white, phase, applied>>

\* Faulty variant: LEFT without the test index > 0
KeyLeft_unguarded ==
    /\ phase = "playback"
    /\ paused # 0
    /\ index' = index - 1
    /\ Replay(index - 1)
    /\ UNCHANGED <<moves, probe, move_buffer, header_result, result, has_loser,
                   loser_is_white_local, is_draw, paused, quit, review_index,
                   pause_hold, show_loser_king, show_draw_kings, dim_board,
                   loser_is_white, phase>>

\* SDLK_LEFT in the playback loop
KeyLeft ==
    /\ phase = "playback"
    /\ paused # 0
    /\ index > 0
    /\ index' = index - 1
    /\ Replay(index - 1)
    /\ UNCHANGED <<moves, probe, move_buffer, header_result, result, has_loser,
                   loser_is_white_local, is_draw, paused, quit, review_index,
                   pause_hold, show_loser_king, show_draw_kings, dim_board,
                   loser_is_white, phase>>

\* SDLK_RIGHT in the playback loop
KeyRight ==
    /\ phase = "playback"
    /\ paused # 0
    /\ index < Len(moves)
    /\ index' = index + 1
    /\ Replay(index + 1)
    /\ UNCHANGED <<moves, probe, move_buffer, header_result, result, has_loser,
                   loser_is_white_local, is_draw, paused, quit, review_index,
                   pause_hold, show_loser_king, show_draw_kings, dim_board,
                   loser_is_white, phase>>

\* SDL_QUIT or SDLK_ESCAPE in the playback loop
KeyQuit ==
    /\ phase = "playback"
    /\ quit' = 1
    /\ Return
    /\ UNCHANGED <<board, moves, index, last, check, probe, move_buffer,
                   header_result, result, has_loser, loser_is_white_local, is_draw,
                   paused, review_index, pause_hold, loser_is_white, applied>>

\* The playback loop ends at index >= move_count: the loser's king is turned
\* over or both kings are tilted, then the review loop starts; quit_now is a
\* quit that arrives while the king turns: play_game returns at once.
EndOfPlaybackWith(quit_now) ==
    /\ phase = "playback"
    /\ index >= Len(moves)
    /\ quit_now # 0 => (has_loser # 0 \/ is_draw # 0)
    /\ quit' = quit_now
    /\ loser_is_white' = IF has_loser # 0 THEN loser_is_white_local
                         ELSE loser_is_white
    /\ IF quit_now # 0
       THEN Return /\ UNCHANGED check
       ELSE /\ phase' = "review"
            /\ dim_board' = 0
            /\ show_loser_king' = IF has_loser # 0 THEN 1 ELSE 0
            /\ show_draw_kings' = IF has_loser = 0 /\ is_draw # 0 THEN 1 ELSE 0
            /\ check' = IF has_loser # 0 \/ is_draw # 0
                        THEN draw_board(board) ELSE check
    /\ review_index' = index
    /\ pause_hold' = 0
    /\ UNCHANGED <<board, moves, index, last, probe, move_buffer, header_result,
                   result, has_loser, loser_is_white_local, is_draw, paused,
                   applied>>

EndOfPlayback == \E quit_now \in {0, 1} : EndOfPlaybackWith(quit_now)

\* The end of a pass of the review loop: at review_index == move_count the
\* presentation is switched on again
ReviewShown(idx, loser_before, draw_before) ==
    /\ show_loser_king' = IF idx = Len(moves) /\ has_loser # 0 THEN 1
                          ELSE IF idx = Len(moves) /\ is_draw # 0 THEN 0
                          ELSE loser_before
    /\ show_draw_kings' = IF idx = Len(moves) /\ has_loser # 0 THEN 0
                          ELSE IF idx = Len(moves) /\ is_draw # 0 THEN 1
                          ELSE draw_before

\* SDLK_SPACE in the review loop
ReviewSpace ==
    /\ phase = "review"
    /\ pause_hold' = 1 - pause_hold
    /\ dim_board' = 1 - pause_hold
    /\ check' = draw_board(board)
    /\ ReviewShown(review_index, show_loser_king, show_draw_kings)
    /\ UNCHANGED <<board, moves, index, last, probe, move_buffer, header_result,
                   result, has_loser, loser_is_white_local, is_draw, paused, quit,
                   review_index, loser_is_white, phase, applied>>

\* SDLK_LEFT in the review loop
ReviewLeft ==
    /\ phase = "review"
    /\ review_index > 0
    /\ review_index' = review_index - 1
    /\ Replay(review_index - 1)
    /\ ReviewShown(review_index - 1, 0, 0)
    /\ UNCHANGED <<moves, index, probe, move_buffer, header_result, result,
                   has_loser, loser_is_white_local, is_draw, paused, quit,
                   pause_hold, dim_board, loser_is_white, phase>>

\* SDLK_RIGHT in the review loop
ReviewRight ==
    /\ phase = "review"
    /\ review_index < Len(moves)
    /\ review_index' = review_index + 1
    /\ Replay(review_index + 1)
    /\ ReviewShown(review_index + 1, 0, 0)
    /\ UNCHANGED <<moves, index, probe, move_buffer, header_result, result,
                   has_loser, loser_is_white_local, is_draw, paused, quit,
                   pause_hold, dim_board, loser_is_white, phase>>

\* The pause after the game has run out while the review is not held
ReviewTimeout ==
    /\ phase = "review"
    /\ pause_hold = 0
    /\ Return
    /\ UNCHANGED <<board, moves, index, last, check, probe, move_buffer,
                   header_result, result, has_loser, loser_is_white_local, is_draw,
                   paused, quit, review_index, pause_hold, loser_is_white, applied>>

\* SDL_QUIT or SDLK_ESCAPE in the review loop
ReviewQuit ==
    /\ phase = "review"
    /\ quit' = 1
    /\ Return
    /\ UNCHANGED <<board, moves, index, last, check, probe, move_buffer,
                   header_result, result, has_loser, loser_is_white_local, is_draw,
                   paused, review_index, pause_hold, loser_is_white, applied>>

NextGame ==
    \/ AutoAdvanceKeys
    \/ KeySpace
    \/ KeyLeft
    \/ KeyRight
    \/ KeyQuit
    \/ EndOfPlayback
    \/ ReviewSpace
    \/ ReviewLeft
    \/ ReviewRight
    \/ ReviewTimeout
    \/ ReviewQuit

SpecGame == InitGame /\ [][NextGame]_vars

\* play_game while no event arrives: SDL_PollEvent returns 0 in every pass,
\* in animate_move and while the king turns
EndOfPlaybackQuiet == EndOfPlaybackWith(0)

NextQuiet ==
    \/ AutoAdvance
    \/ EndOfPlaybackQuiet
    \/ ReviewTimeout

\* The clock keeps advancing: SDL_GetTicks grows across the SDL_Delay(10) of
\* each pass, so the delay a pass waits for has elapsed in some later pass
SpecQuiet == InitGame /\ [][NextQuiet]_vars /\ WF_vars(NextQuiet)

-----------------------------------------------------------------------------
(* Direct calls of the validator.  A position holds the piece that is to    *)
(* move and, around its way to the destination, up to two more pieces: one  *)
(* on the destination, one on a square between origin and destination or    *)
(* beside the origin in the destination's file.                             *)

WhitePieces == {"P", "N", "B", "R", "Q", "K"}

BlackPieces == {"p", "n", "b", "r", "q", "k"}

PiecesOf(is_white) == IF is_white # 0 THEN WhitePieces ELSE BlackPieces

EmptyBoard == [r \in Rows |-> [f \in Rows |-> "."]]

\* Two different squares on a common rank, file or diagonal
OnLine(a, c) ==
    /\ a # c
    /\ (a[1] = c[1] \/ a[2] = c[2] \/ abs(a[1] - c[1]) = abs(a[2] - c[2]))

\* The squares strictly between a and c on their common line
Between(a, c) ==
    IF ~OnLine(a, c) THEN {}
    ELSE {sq \in Squares :
            /\ OnLine(a, sq) /\ OnLine(sq, c)
            /\ sign(sq[1] - a[1]) = sign(c[1] - a[1])
            /\ sign(sq[2] - a[2]) = sign(c[2] - a[2])
            /\ sign(c[1] - sq[1]) = sign(c[1] - a[1])
            /\ sign(c[2] - sq[2]) = sign(c[2] - a[2])}

\* Where the second extra piece may stand
Around(from, to) == (Between(from, to) \cup {<<from[1], to[2]>>}) \ {from, to}

\* The origins tried with extra pieces on the board: the home rows and the
\* en passant rows of both colours, corners, edges and the centre
ProbeFrom ==
    {<<6, 4>>, <<1, 4>>, <<3, 4>>, <<4, 3>>, <<0, 0>>, <<7, 7>>,
     <<5, 2>>, <<2, 5>>, <<3, 0>>, <<4, 7>>, <<6, 0>>, <<1, 7>>}

NoDraw == [white |-> 0, black |-> 0]

InitMoves ==
    /\ NoGame
    /\ moves = <<>>
    /\ index = 0
    /\ last = NoStep
    /\ check = NoDraw
    /\ \E piece \in WhitePieces \cup BlackPieces, from \in Squares, to \in Squares :
       \E at_to \in {".", "N", "n"} :
       \E extra \in {<<from, ".">>} \cup (Around(from, to) \X {"P", "p"}) :
          /\ from \in ProbeFrom \/ (at_to = "." /\ extra[2] = ".")
          /\ board = Put(Put(Put(EmptyBoard, extra[1][1], extra[1][2], extra[2]),
                             to[1], to[2], at_to),
                         from[1], from[2], piece)
          /\ probe = [kind |-> "setup", piece |-> piece,
                      from_r |-> from[1], from_f |-> from[2],
                      to_r |-> to[1], to_f |-> to[2],
                      is_white |-> is_white_piece(piece), capture |-> 0, ret |-> 0]

\* is_valid_move(piece, from_r, from_f, to_r, to_f, is_white, capture)
CallIsValidMove ==
    /\ probe.kind = "setup"
    /\ \E capture \in {0, 1} :
          probe' = [probe EXCEPT
                      !.kind = "is_valid_move",
                      !.capture = capture,
                      !.ret = is_valid_move(board, probe.piece, probe.from_r, probe.from_f,
                                            probe.to_r, probe.to_f, probe.is_white, capture)]
    /\ UNCHANGED <<board, moves, index, last, check, gameVars>>

\* is_path_clear(from_r, from_f, to_r, to_f), called as is_valid_move calls
\* it: for two squares on a common rank, file or diagonal
CallIsPathClear ==
    /\ probe.kind = "setup"
    /\ OnLine(<<probe.from_r, probe.from_f>>, <<probe.to_r, probe.to_f>>)
    /\ probe' = [probe EXCEPT
                    !.kind = "is_path_clear",
                    !.ret = is_path_clear(board, probe.from_r, probe.from_f,
                                          probe.to_r, probe.to_f)]
    /\ UNCHANGED <<board, moves, index, last, check, gameVars>>

NextMoves == CallIsValidMove \/ CallIsPathClear

SpecMoves == InitMoves /\ [][NextMoves]_vars

-----------------------------------------------------------------------------
(* Direct calls of the tokenizer on lines, tokens and movetexts built from  *)
(* small alphabets.                                                         *)

MaxLine == 5

MaxToken == 5

MaxText == 3

\* a small max_moves, tried beside MAX_MOVES
MaxMovesArg == 1

\* a small out_size, tried beside MOVE_TEXT_LEN
OutSizeArg == 3

LineAlphabet == {"{", "}", "(", ")", ";", "\n", "a", "b"}

TokenAlphabet == {"1", "0", ".", "e", "!", "?", "-"}

\* The strings over the alphabet of at most n characters
RECURSIVE Strings(_, _)
Strings(alphabet, n) ==
    IF n = 0 THEN {<<>>}
    ELSE Strings(alphabet, n - 1)
            \cup {Append(t, c) : t \in Strings(alphabet, n - 1), c \in alphabet}

TextWords ==
    {<<"1", ".">>, <<"e", "4">>, <<"e", "5", "!", "?">>, <<"1", ".", "e", "4">>,
     <<".", ".", ".">>, <<"0", "-", "0">>, <<"!">>,
     <<"1", "-", "0">>, <<"0", "-", "1">>, <<"*">>,
     <<"1", "/", "2", "-", "1", "/", "2">>, <<"1", "-", "0", "!">>}

TextSeparators == {<<" ">>, <<"\r", "\n", "\t">>}

RECURSIVE WordLists(_)
WordLists(n) ==
    IF n = 0 THEN {<<>>}
    ELSE WordLists(n - 1) \cup {Append(t, w) : t \in WordLists(n - 1), w \in TextWords}

InitText ==
    /\ NoGame
    /\ moves = <<>>
    /\ board = init_board
    /\ index = 0
    /\ last = NoStep
    /\ check = NoDraw
    /\ \/ \E line \in Strings(LineAlphabet, MaxLine) :
             probe = [kind |-> "line", input |-> line]
       \/ \E token \in Strings(TokenAlphabet, MaxToken) \ {<<>>} :
             probe = [kind |-> "token", input |-> token]
       \/ \E words \in WordLists(MaxText), sep \in TextSeparators :
             probe = [kind |-> "movetext", input |-> JoinWords(words, sep)]

\* clean_line(line)
CallCleanLine ==
    /\ probe.kind = "line"
    /\ probe' = [kind |-> "clean_line", input |-> probe.input,
                 out |-> clean_line(probe.input)]
    /\ UNCHANGED <<board, moves, index, last, check, gameVars>>

\* extract_san_token(token, out, out_size)
CallExtractSanToken ==
    /\ probe.kind = "token"
    /\ \E out_size \in {OutSizeArg, MOVE_TEXT_LEN} :
       \E ex \in {extract_san_token(probe.input, <<>>, out_size)} :
          probe' = [kind |-> "extract_san_token", input |-> probe.input,
                    out_size |-> out_size, ret |-> ex.ret, out |-> ex.out]
    /\ UNCHANGED <<board, moves, index, last, check, gameVars>>

\* build_move_list(move_buffer, moves, max_moves, result_out, RESULT_LEN)
CallBuildMoveList ==
    /\ probe.kind = "movetext"
    /\ \E max_moves \in {MaxMovesArg, MAX_MOVES} :
       \E built \in {build_move_list(probe.input, max_moves, RESULT_LEN)} :
          probe' = [kind |-> "build_move_list", input |-> probe.input,
                    max_moves |-> max_moves, count |-> built.count,
                    moves |-> built.moves, result_out |-> built.result_out]
    /\ UNCHANGED <<board, moves, index, last, check, gameVars>>

NextText == CallCleanLine \/ CallExtractSanToken \/ CallBuildMoveList

SpecText == InitText /\ [][NextText]_vars

-----------------------------------------------------------------------------
(* The engine of chess_screensaver_sdl.c beside the engine of               *)
(* chess_viewer.c: is_valid_move and is_in_check differ in one test, made   *)
(* there with isupper and here with is_white_piece.  upper is the value     *)
(* isupper returns for an uppercase letter: the C library says nonzero.     *)

\* what isupper returns for an uppercase letter: 1, or the bit of the
\* character class table
IsupperValues == {1, 256}

\* isupper(c) of the C library
sdl_isupper(c, upper) == IF c \in Range(Uppers) THEN upper ELSE 0

\* is_enemy = !is_empty && (isupper(at_to) != is_white)
sdl_is_enemy_at(at_to, is_white, upper) ==
    at_to # "." /\ (sdl_isupper(at_to, upper) # is_white)

\* case 'P' of the screensaver's is_valid_move
sdl_pawn_movement(b, from_r, from_f, to_r, to_f, is_white, capture, upper) ==
    LET dr == abs(to_r - from_r)
        df == abs(to_f - from_f)
        dir == IF is_white # 0 THEN -1 ELSE 1
        at_to == b[to_r][to_f]
        is_empty == (at_to = ".")
        is_enemy == sdl_is_enemy_at(at_to, is_white, upper)
        ep_rank == IF is_white # 0 THEN 3 ELSE 4
    IN  IF df = 0
        THEN IF capture # 0 THEN FALSE
             ELSE IF ~is_empty THEN FALSE
             ELSE IF dr = 1 /\ (to_r - from_r) = dir THEN TRUE
             ELSE IF /\ dr = 2
                     /\ \/ (is_white # 0 /\ from_r = 6)
                        \/ (is_white = 0 /\ from_r = 1)
                     /\ (to_r - from_r) = 2 * dir
                  THEN is_path_clear(b, from_r, from_f, to_r, to_f) # 0
                  ELSE FALSE
        ELSE IF df = 1 /\ dr = 1 /\ (to_r - from_r) = dir
             THEN IF capture # 0 /\ is_enemy THEN TRUE
                  ELSE IF capture # 0 /\ is_empty
                       THEN /\ from_r = ep_rank
                            /\ b[from_r][to_f] = (IF is_white # 0 THEN "p" ELSE "P")
                       ELSE FALSE
             ELSE FALSE

\* is_valid_move of chess_screensaver_sdl.c
sdl_is_valid_move(b, piece, from_r, from_f, to_r, to_f, is_white, capture, upper) ==
    LET dr == abs(to_r - from_r)
        df == abs(to_f - from_f)
        p == toupper(piece)
        at_to == b[to_r][to_f]
        is_empty == (at_to = ".")
        is_enemy == sdl_is_enemy_at(at_to, is_white, upper)
        movement_valid ==
            CASE p = "P" -> sdl_pawn_movement(b, from_r, from_f, to_r, to_f,
                                              is_white, capture, upper)
              [] p = "N" -> (dr = 1 /\ df = 2) \/ (dr = 2 /\ df = 1)
              [] p = "B" -> dr = df /\ dr > 0
                              /\ is_path_clear(b, from_r, from_f, to_r, to_f) # 0
              [] p = "R" -> (dr = 0 \/ df = 0) /\ (dr + df > 0)
                              /\ is_path_clear(b, from_r, from_f, to_r, to_f) # 0
              [] p = "Q" -> ((dr = df) \/ (dr = 0 \/ df = 0)) /\ (dr + df > 0)
                              /\ is_path_clear(b, from_r, from_f, to_r, to_f) # 0
              [] p = "K" -> dr <= 1 /\ df <= 1 /\ (dr + df > 0)
              [] OTHER -> FALSE
    IN  IF movement_valid
        THEN IF capture # 0
             THEN (IF is_enemy \/ (p = "P" /\ is_empty /\ movement_valid) THEN 1 ELSE 0)
             ELSE (IF is_empty THEN 1 ELSE 0)
        ELSE 0

\* The second loop of the screensaver's is_in_check
sdl_attack_loop(b, king_r, king_f, opponent_is_white, upper) ==
    IF \E r \in Rows, f \in Rows :
          /\ ~(b[r][f] = "." \/ (sdl_isupper(b[r][f], upper) # opponent_is_white))
          /\ sdl_is_valid_move(b, b[r][f], r, f, king_r, king_f,
                               opponent_is_white, 1, upper) # 0
    THEN 1 ELSE 0

\* is_in_check of chess_screensaver_sdl.c
sdl_is_in_check(b, is_white, upper) ==
    LET king == IF is_white # 0 THEN "K" ELSE "k"
        kpos == find_king(b, king)
        opponent_is_white == not(is_white)
    IN  IF kpos[1] = -1 THEN 0
        ELSE sdl_attack_loop(b, kpos[1], kpos[2], opponent_is_white, upper)

\* The origins of the positions both engines are called on
EngineFrom == {<<6, 4>>, <<1, 4>>, <<3, 4>>}

\* A board with one piece on an origin and a piece or nothing on another
\* square
InitEngines ==
    /\ NoGame
    /\ moves = <<>>
    /\ index = 0
    /\ last = NoStep
    /\ check = NoDraw
    /\ \E piece \in WhitePieces \cup BlackPieces, from \in EngineFrom,
          to \in Squares \ EngineFrom :
       \E at_to \in {".", "N", "n", "K", "k"} :
          /\ board = Put(Put(EmptyBoard, to[1], to[2], at_to), from[1], from[2], piece)
          /\ probe = [kind |-> "position", piece |-> piece,
                      from_r |-> from[1], from_f |-> from[2],
                      to_r |-> to[1], to_f |-> to[2]]

\* is_valid_move of both files on the same arguments
CallBothIsValidMove ==
    /\ probe.kind = "position"
    /\ \E is_white \in {0, 1}, capture \in {0, 1}, upper \in IsupperValues :
          probe' = [kind |-> "is_valid_move", piece |-> probe.piece,
                    to_r |-> probe.to_r, to_f |-> probe.to_f,
                    is_white |-> is_white, capture |-> capture, upper |-> upper,
                    viewer |-> is_valid_move(board, probe.piece, probe.from_r,
                                             probe.from_f, probe.to_r, probe.to_f,
                                             is_white, capture),
                    screensaver |-> sdl_is_valid_move(board, probe.piece, probe.from_r,
                                                      probe.from_f, probe.to_r,
                                                      probe.to_f, is_white, capture,
                                                      upper)]
    /\ UNCHANGED <<board, moves, index, last, check, gameVars>>

\* is_in_check of both files on the same board
CallBothIsInCheck ==
    /\ probe.kind = "position"
    /\ \E is_white \in {0, 1}, upper \in IsupperValues :
          probe' = [kind |-> "is_in_check", is_white |-> is_white, upper |-> upper,
                    viewer |-> is_in_check(board, is_white),
                    screensaver |-> sdl_is_in_check(board, is_white, upper)]
    /\ UNCHANGED <<board, moves, index, last, check, gameVars>>

NextEngines == CallBothIsValidMove \/ CallBothIsInCheck

SpecEngines == InitEngines /\ [][NextEngines]_vars

-----------------------------------------------------------------------------
(* The fixed-size arrays: what init_board writes into board and what        *)
(* parse_san writes into clean_san and hint_str for the tokens              *)
(* build_move_list emits.  A write past the end of an array is undefined;   *)
(* what is kept here is the extent of the write, not what follows it.       *)

\* char clean_san[16]
CLEAN_SAN_LEN == 16

\* char hint_str[4]
HINT_STR_LEN == 4

\* struct Candidate candidates[16]
MAX_CANDIDATES == 16

\* parse_san(san, ...) for a token of any length: the bytes strcpy writes
\* into clean_san, the lowest index used on clean_san, the bytes strncpy
\* writes into hint_str and the entries written into candidates on the
\* initial position; the last two only when the copy at the top stayed
\* inside clean_san, and the candidates only when hint_str came out
\* terminated.
parse_san_buffers(san, is_white) ==
    LET len0 == Len(san)
        stripped == IF san[len0] = "+" \/ san[len0] = "#"
                    THEN SubSeq(san, 1, len0 - 1) ELSE san
        eq == strchr(stripped, "=")
        clean_san == IF eq >= 0 THEN SubSeq(stripped, 1, eq) ELSE stripped
        len == Len(clean_san)
        castling == Castles(stripped) \/ LongCastles(stripped)
        to_f == Ascii[At(clean_san, len - 2)] - Ascii["a"]
        to_r == 7 - (Ascii[At(clean_san, len - 1)] - Ascii["1"])
        past_destination == /\ ~castling
                            /\ len >= 2
                            /\ ~(to_r < 0 \/ to_r >= 8 \/ to_f < 0 \/ to_f >= 8)
        has_piece == isupper(At(clean_san, 0)) # 0
                        /\ At(clean_san, 0) \in {"R", "N", "B", "Q", "K"}
        hint_start == IF has_piece THEN 1 ELSE 0
        capture_pos == capture_loop(clean_san, len, hint_start)
        hint_len == (IF capture_pos > 0 THEN capture_pos ELSE len - 2) - hint_start
        copied == len0 + 1 <= CLEAN_SAN_LEN
    IN  [clean_san |-> len0 + 1,
         lowest |-> IF castling \/ len < 2 THEN len0 - 1 ELSE len - 2,
         hint_str |-> IF copied /\ past_destination /\ hint_len > 0
                      THEN hint_len ELSE 0,
         candidates |-> IF copied /\ past_destination /\ hint_len < HINT_STR_LEN
                        THEN Len(parse_san(init_board, san, is_white, Move0).candidates)
                        ELSE 0]

\* the longest run of one character inside a token
MaxFill == 34

RECURSIVE Fill(_, _)
Fill(c, n) == IF n = 0 THEN <<>> ELSE <<c>> \o Fill(c, n - 1)

\* Whitespace-delimited tokens of a movetext: a move number or a piece
\* letter or nothing, a run of one character, and an end
RawTokens ==
    {front \o Fill(c, n) \o back :
        front \in {<<>>, <<"N">>, <<"1", ".">>},
        c \in {"a", "x", "1"},
        n \in 0 .. MaxFill,
        back \in {<<"e", "5">>, <<"x", "e", "5">>, <<"e", "5", "+">>,
                  <<"e", "8", "=", "Q">>, <<"+">>}}

InitBuffers ==
    /\ NoGame
    /\ moves = <<>>
    /\ board = init_board
    /\ index = 0
    /\ last = NoStep
    /\ check = NoDraw
    /\ \/ probe = [kind |-> "start"]
       \/ \E raw \in RawTokens : probe = [kind |-> "raw", input |-> raw]

\* init_board()
CallInitBoard ==
    /\ probe.kind = "start"
    /\ probe' = [kind |-> "init_board", written |-> init_board_written]
    /\ board' = init_board
    /\ UNCHANGED <<moves, index, last, check, gameVars>>

\* The token build_move_list makes of the raw token, handed to parse_san
CallParseSan ==
    /\ probe.kind = "raw"
    /\ \E ex \in {extract_san_token(probe.input, <<>>, MOVE_TEXT_LEN)} :
       \E is_white \in {0, 1} :
          /\ ex.ret # 0
          /\ is_result_token(ex.out) = 0
          /\ probe' = [kind |-> "parse_san", input |-> probe.input,
                       san |-> strncpy(ex.out, MOVE_TEXT_LEN - 1),
                       is_white |-> is_white,
                       used |-> parse_san_buffers(strncpy(ex.out, MOVE_TEXT_LEN - 1),
                                                  is_white)]
    /\ UNCHANGED <<board, moves, index, last, check, gameVars>>

NextBuffers == CallInitBoard \/ CallParseSan

SpecBuffers == InitBuffers /\ [][NextBuffers]_vars

-----------------------------------------------------------------------------
(* load_games: the lines of a PGN file, read one by one.  The locals of     *)
(* load_games are the fields of probe; read is the list of the lines read   *)
(* so far, by name.                                                         *)

NAME_LEN == 128

YEAR_LEN == 5

\* char move_buffer[65536]
MOVE_BUFFER_LEN == 65536

isspace(c) == IF c \in {" ", "\t", "\n", "\r"} THEN 1 ELSE 0

\* while (isspace(*trim)) trim++
RECURSIVE ltrim(_)
ltrim(s) == IF s # <<>> /\ isspace(Head(s)) # 0 THEN ltrim(Tail(s)) ELSE s

\* strncmp(s, prefix, strlen(prefix)) == 0
starts_with(s, prefix) == strncpy(s, Len(prefix)) = prefix

\* strncat(dest, src, n)
strncat(dest, src, n) == dest \o strncpy(src, n)

\* parse_tag_value(line, tag, out, out_size): the return value and out
parse_tag_value(line, tag, out, out_size) ==
    LET tag_len == Len(tag)
        first_quote == strchr(line, "\"")
        behind == SubSeq(line, first_quote + 2, Len(line))
        second_quote == strchr(behind, "\"")
        len == IF second_quote >= out_size THEN out_size - 1 ELSE second_quote
    IN  IF ~starts_with(line, <<"[">>) THEN [ret |-> 0, out |-> out]
        ELSE IF ~starts_with(Tail(line), tag) THEN [ret |-> 0, out |-> out]
        ELSE IF isspace(At(line, 1 + tag_len)) = 0 THEN [ret |-> 0, out |-> out]
        ELSE IF first_quote < 0 THEN [ret |-> 0, out |-> out]
        ELSE IF second_quote < 0 THEN [ret |-> 0, out |-> out]
        ELSE [ret |-> 1, out |-> SubSeq(behind, 1, len)]

\* extract_year(out, out_size, date): out
extract_year(out_size, date) ==
    IF Len(date) < 4 THEN <<>>
    ELSE IF \E i \in 1 .. 4 : isdigit(date[i]) = 0 THEN <<>>
    ELSE IF out_size < 5 THEN <<>>
    ELSE SubSeq(date, 1, 4)

\* push_game: the entry added to games
push_game(buffer, white, black, year, res) ==
    [moves |-> buffer,
     white |-> strncpy(IF white # <<>> THEN white ELSE <<"W", "h", "i", "t", "e">>,
                       NAME_LEN - 1),
     black |-> strncpy(IF black # <<>> THEN black ELSE <<"B", "l", "a", "c", "k">>,
                       NAME_LEN - 1),
     year |-> strncpy(year, YEAR_LEN - 1),
     result |-> strncpy(res, RESULT_LEN - 1)]

\* Faulty variant: a game is started by every header line
event_line_any(trim) == starts_with(trim, <<"[">>)

\* strncmp(trim, "[Event", 6) == 0
event_line(trim) == starts_with(trim, <<"[", "E", "v", "e", "n", "t">>)

\* One pass of the while loop of load_games with the line fgets has read: the
\* locals after it
load_line(st, line) ==
    LET trim == ltrim(clean_line(line))
        date == parse_tag_value(trim, <<"D", "a", "t", "e">>, st.current_date, NAME_LEN)
    IN  IF event_line(trim)
        THEN [st EXCEPT
                !.games = IF st.in_game # 0 /\ st.move_buffer # <<>>
                          THEN Append(@, push_game(st.move_buffer, st.current_white,
                                                   st.current_black, st.current_year,
                                                   st.current_result))
                          ELSE @,
                !.move_buffer = <<>>,
                !.current_white = <<>>,
                !.current_black = <<>>,
                !.current_date = <<>>,
                !.current_year = <<>>,
                !.current_result = <<>>,
                !.in_game = 1]
        ELSE IF st.in_game # 0 /\ At(trim, 0) = "["
        THEN [st EXCEPT
                !.current_white = parse_tag_value(trim, <<"W", "h", "i", "t", "e">>,
                                                  @, NAME_LEN).out,
                !.current_black = parse_tag_value(trim, <<"B", "l", "a", "c", "k">>,
                                                  @, NAME_LEN).out,
                !.current_date = date.out,
                !.current_year = IF date.ret # 0 THEN extract_year(YEAR_LEN, date.out)
                                 ELSE @,
                !.current_result = parse_tag_value(trim, <<"R", "e", "s", "u", "l", "t">>,
                                                   @, RESULT_LEN).out]
        ELSE IF st.in_game # 0 /\ At(trim, 0) # "[" /\ At(trim, 0) # NUL
        THEN [st EXCEPT
                !.move_buffer =
                    LET spaced == strncat(@, <<" ">>, MOVE_BUFFER_LEN - Len(@) - 1)
                    IN  strncat(spaced, trim, MOVE_BUFFER_LEN - Len(spaced) - 1)]
        ELSE st

\* The lines a file is made of
FileLines ==
    [Event |->
        <<"[", "E", "v", "e", "n", "t", " ", "\"", "x", "\"", "]", "\n">>,
     White |->
        <<"[", "W", "h", "i", "t", "e", " ", "\"", "w", "\"", "]", "\n">>,
     Black |->
        <<"[", "B", "l", "a", "c", "k", " ", "\"", "b", "\"", "]", "\n">>,
     Date |->
        <<"[", "D", "a", "t", "e", " ", "\"", "1", "9", "9", "9", ".", "0",
          "1", ".", "0", "2", "\"", "]", "\n">>,
     Result |->
        <<"[", "R", "e", "s", "u", "l", "t", " ", "\"", "1", "-", "0", "\"",
          "]", "\n">>,
     EventDate |->
        <<"[", "E", "v", "e", "n", "t", "D", "a", "t", "e", " ", "\"", "2",
          "0", "0", "0", "\"", "]", "\n">>,
     Moves |->
        <<"e", "4", " ", "e", "5", "\n">>,
     BraceOpens |->
        <<"d", "4", " ", "{", "y", "\n">>,
     BraceCloses |->
        <<"z", "}", " ", "d", "5", "\n">>,
     ParenOpens |->
        <<"c", "4", " ", "(", "p", "\n">>,
     ParenCloses |->
        <<"q", ")", " ", "c", "5", "\n">>]

\* the number of lines of a file
MaxFileLines == 5

InitLoad ==
    /\ NoGame
    /\ moves = <<>>
    /\ board = init_board
    /\ index = 0
    /\ last = NoStep
    /\ check = NoDraw
    /\ probe = [kind |-> "load_games", read |-> <<>>, games |-> <<>>,
                move_buffer |-> <<>>, current_white |-> <<>>, current_black |-> <<>>,
                current_date |-> <<>>, current_year |-> <<>>,
                current_result |-> <<>>, in_game |-> 0]

\* fgets returns a line: one pass of the loop
ReadLine ==
    /\ probe.kind = "load_games"
    /\ Len(probe.read) < MaxFileLines
    /\ \E name \in DOMAIN FileLines :
          probe' = [load_line(probe, FileLines[name])
                       EXCEPT !.read = Append(@, name)]
    /\ UNCHANGED <<board, moves, index, last, check, gameVars>>

\* fgets returns NULL: the game in the buffer is pushed
EndOfFile ==
    /\ probe.kind = "load_games"
    /\ probe' = [probe EXCEPT
                    !.kind = "loaded",
                    !.games = IF probe.in_game # 0 /\ probe.move_buffer # <<>>
                              THEN Append(@, push_game(probe.move_buffer,
                                                       probe.current_white,
                                                       probe.current_black,
                                                       probe.current_year,
                                                       probe.current_result))
                              ELSE @]
    /\ UNCHANGED <<board, moves, index, last, check, gameVars>>

NextLoad == ReadLine \/ EndOfFile

SpecLoad == InitLoad /\ [][NextLoad]_vars

-----------------------------------------------------------------------------
(* Properties of parse_san and is_in_check, checked on the playback        *)

\* sq1 comes before sq2 in the scan rows 0..7, then files 0..7
Before(sq1, sq2) == sq1[1] < sq2[1] \/ (sq1[1] = sq2[1] /\ sq1[2] < sq2[2])

Advanced == last.kind = "advance"

\* The latest step parsed a token that is no castling token and names a
\* destination on the board.
Resolved == Advanced /\ last.parsed.stage = "resolved"

\* The pieces of the mover's type and colour that pass the hint filter and the
\* pseudo-legality test of the latest parse.
CandSet ==
    LET p == last.parsed
    IN  {sq \in Squares :
            /\ last.before[sq[1]][sq[2]] = p.target_piece
            /\ (p.hint_f >= 0 => sq[2] = p.hint_f)
            /\ (p.hint_r >= 0 => sq[1] = p.hint_r)
            /\ is_valid_move(last.before, p.target_piece, sq[1], sq[2],
                             p.m.to_r, p.m.to_f, last.is_white, p.capture) # 0}

\* The mover's own king is not in check after the move from sq is applied.
SafeFrom(sq) ==
    is_in_check(apply_move(last.before,
                           [last.parsed.m EXCEPT !.from_r = sq[1], !.from_f = sq[2]],
                           last.is_white),
                last.is_white) = 0

Origin == <<last.parsed.m.from_r, last.parsed.m.from_f>>

\* C1: whatever parse_san returns, and also after the trial step has applied
\* moves to the live board, the board on return equals the board on entry.
C1_ParseSanKeepsBoard == Advanced => last.parsed.board = last.before

\* C1 witness: a parse whose trial step applied every one of two or more
\* candidates to the live board and then failed.
C1_Witness ==
    /\ Resolved
    /\ Len(last.parsed.candidates) >= 2
    /\ last.parsed.ret = 0
    /\ \A sq \in CandSet :
          apply_move(last.before, [last.parsed.m EXCEPT !.from_r = sq[1],
                                                        !.from_f = sq[2]],
                     last.is_white) # last.before

\* C2: with two or more candidates parse_san returns the first one in scan
\* order that leaves the mover's king out of check, never one that leaves it
\* in check, and fails when every candidate leaves it in check.
C2_FirstSafeCandidate ==
    (Resolved /\ Cardinality(CandSet) >= 2) =>
        /\ last.parsed.ret # 0 =>
              /\ Origin \in CandSet
              /\ SafeFrom(Origin)
              /\ \A sq \in CandSet : Before(sq, Origin) => ~SafeFrom(sq)
        /\ last.parsed.ret = 0 <=> (\A sq \in CandSet : ~SafeFrom(sq))

\* C2 witness: two knights reach the square, the first in scan order is
\* pinned and the second one is returned.
C2_Witness ==
    /\ Resolved
    /\ Cardinality(CandSet) >= 2
    /\ last.parsed.ret # 0
    /\ last.parsed.target_piece = "N"
    /\ \E sq \in CandSet : Before(sq, Origin) /\ ~SafeFrom(sq)

\* C3 as stated: failure exactly when there is no candidate or every
\* candidate, a single one included, leaves the mover's king in check.
C3_AsStated ==
    Resolved =>
        (last.parsed.ret = 0 <=>
            (CandSet = {} \/ \A sq \in CandSet : ~SafeFrom(sq)))

\* C3 amended: failure exactly when there is no candidate, or there are two
\* or more and every one leaves the mover's king in check; a single candidate
\* is returned without the king-safety test.
C3_FailureCases ==
    Resolved =>
        (last.parsed.ret = 0 <=>
            \/ CandSet = {}
            \/ (Cardinality(CandSet) >= 2 /\ \A sq \in CandSet : ~SafeFrom(sq)))

\* C3 witness: the only candidate leaves the mover's king in check and is
\* returned all the same.
C3_Witness ==
    /\ Resolved
    /\ Cardinality(CandSet) = 1
    /\ last.parsed.ret # 0
    /\ Origin \in CandSet
    /\ ~SafeFrom(Origin)

\* The squares of b that hold the king of the colour
KingSquares(b, is_white) ==
    {sq \in Squares : b[sq[1]][sq[2]] = (IF is_white # 0 THEN "K" ELSE "k")}

\* The colour has a king on b and a piece of the other colour passes
\* is_valid_move from its square to the king's square as a capture.
Attacked(b, is_white) ==
    \E ks \in KingSquares(b, is_white) :
        /\ \A other \in KingSquares(b, is_white) : other = ks \/ Before(ks, other)
        /\ \E sq \in Squares :
              /\ b[sq[1]][sq[2]] \in PiecesOf(not(is_white))
              /\ is_valid_move(b, b[sq[1]][sq[2]], sq[1], sq[2], ks[1], ks[2],
                               not(is_white), 1) # 0

\* C4: is_in_check(colour) is 1 exactly when the colour's king is on the board
\* and a piece of the other colour passes is_valid_move to the king's square
\* with capture = 1, and 0 when the colour has no king; the board drawn is the
\* board the move left.
C4_InCheckIffAttacked ==
    /\ check.white = (IF Attacked(board, 1) THEN 1 ELSE 0)
    /\ check.black = (IF Attacked(board, 0) THEN 1 ELSE 0)
    /\ KingSquares(board, 1) = {} => check.white = 0
    /\ KingSquares(board, 0) = {} => check.black = 0
    /\ (Advanced /\ last.parsed.ret # 0) =>
          board = apply_move(last.before, last.parsed.m, last.is_white)

\* C4 witness: the White king is in check from the Black queen while the
\* Black king is not attacked.
C4_Witness ==
    /\ check.white = 1
    /\ check.black = 0
    /\ \E sq \in Squares : board[sq[1]][sq[2]] = "q"
          /\ \E ks \in KingSquares(board, 1) :
                is_valid_move(board, "q", sq[1], sq[2], ks[1], ks[2], 0, 1) # 0

\* A position without a Black king, where is_in_check(0) answers 0.
C4_NoKingReached == KingSquares(board, 0) = {} /\ check.black = 0

-----------------------------------------------------------------------------
(* Properties of is_valid_move and is_path_clear, checked on direct calls  *)

ValidMoveCalled == probe.kind = "is_valid_move"

ProbeOrigin == <<probe.from_r, probe.from_f>>

ProbeDest == <<probe.to_r, probe.to_f>>

\* What stands on the destination of the call
DestPiece == board[probe.to_r][probe.to_f]

ProbeDir == IF probe.is_white # 0 THEN -1 ELSE 1

\* The en passant condition of the call: a pawn on its en passant row goes
\* one square diagonally forward onto an empty square and an enemy pawn
\* stands beside it in the destination's file.
ProbeEnPassant ==
    /\ toupper(probe.piece) = "P"
    /\ probe.from_r = (IF probe.is_white # 0 THEN 3 ELSE 4)
    /\ probe.to_r = probe.from_r + ProbeDir
    /\ abs(probe.to_f - probe.from_f) = 1
    /\ DestPiece = "."
    /\ board[probe.from_r][probe.to_f] = (IF probe.is_white # 0 THEN "p" ELSE "P")

\* C5: a call with capture = 1 is accepted only onto a piece of the other
\* colour, or for a pawn under the en passant condition onto an empty square;
\* a call with capture = 0 only onto an empty square; never onto a piece of
\* the mover's own colour.
C5_DestinationRule ==
    (ValidMoveCalled /\ probe.ret # 0) =>
        /\ probe.capture # 0 =>
              \/ DestPiece \in PiecesOf(not(probe.is_white))
              \/ ProbeEnPassant
        /\ probe.capture = 0 => DestPiece = "."
        /\ DestPiece \notin PiecesOf(probe.is_white)

\* C5 witness: a capture of an enemy piece that is accepted.
C5_Witness ==
    /\ ValidMoveCalled
    /\ probe.ret = 1
    /\ probe.capture = 1
    /\ toupper(probe.piece) = "Q"
    /\ DestPiece \in PiecesOf(not(probe.is_white))

\* The board holds nothing but the piece of the call
LoneMover == \A sq \in Squares : sq # ProbeOrigin => board[sq[1]][sq[2]] = "."

\* Standard movement of the non-pawn pieces over the row and file distances
StandardGeometry(p, dr, df) ==
    LET diagonal == dr = df /\ dr # 0
        straight == (dr = 0) # (df = 0)
    IN  CASE p = "N" -> {dr, df} = {1, 2}
          [] p = "B" -> diagonal
          [] p = "R" -> straight
          [] p = "Q" -> diagonal \/ straight
          [] p = "K" -> (IF dr > df THEN dr ELSE df) = 1

\* C6: on a board that holds only the moving piece, a non-pawn is accepted
\* with capture = 0 exactly along standard chess geometry, and never from a
\* square to itself.
C6_EmptyBoardGeometry ==
    (ValidMoveCalled /\ probe.capture = 0 /\ toupper(probe.piece) # "P" /\ LoneMover) =>
        /\ probe.ret = 1 <=> StandardGeometry(toupper(probe.piece),
                                              abs(probe.to_r - probe.from_r),
                                              abs(probe.to_f - probe.from_f))
        /\ probe.ret \in {0, 1}
        /\ ProbeOrigin = ProbeDest => probe.ret = 0

\* C6 witness: a lone knight accepted for an L-shaped move.
C6_Witness ==
    /\ ValidMoveCalled
    /\ probe.capture = 0
    /\ probe.piece = "n"
    /\ LoneMover
    /\ probe.ret = 1
    /\ abs(probe.to_r - probe.from_r) = 2

\* A square strictly between origin and destination of the call is occupied
ProbeBlocked == \E sq \in Between(ProbeOrigin, ProbeDest) : board[sq[1]][sq[2]] # "."

\* C7: a rook, bishop or queen is never accepted along a rank, file or
\* diagonal on which a square strictly between is occupied, and
\* is_path_clear is 1 exactly when all squares strictly between are empty.
C7_SlidersBlocked ==
    /\ (/\ ValidMoveCalled
        /\ toupper(probe.piece) \in {"R", "B", "Q"}
        /\ OnLine(ProbeOrigin, ProbeDest)
        /\ ProbeBlocked) => probe.ret = 0
    /\ probe.kind = "is_path_clear" =>
          /\ probe.ret \in {0, 1}
          /\ probe.ret = 1 <=> ~ProbeBlocked

\* C7 witness: a slider's move that only the one piece standing in between
\* makes invalid.
C7_Witness ==
    /\ ValidMoveCalled
    /\ toupper(probe.piece) \in {"R", "B", "Q"}
    /\ probe.ret = 0
    /\ \E sq \in Between(ProbeOrigin, ProbeDest) :
          /\ board[sq[1]][sq[2]] # "."
          /\ is_valid_move(Put(board, sq[1], sq[2], "."), probe.piece,
                           probe.from_r, probe.from_f, probe.to_r, probe.to_f,
                           probe.is_white, probe.capture) = 1

\* C8: a pawn is accepted only toward the opponent's side; straight ahead
\* exactly when capture = 0, the destination is empty and it is one square, or
\* two squares from the home row over an empty square; never diagonally with
\* capture = 0.
C8_PawnAdvance ==
    (ValidMoveCalled /\ toupper(probe.piece) = "P") =>
        LET home == IF probe.is_white # 0 THEN 6 ELSE 1
            one == probe.to_r = probe.from_r + ProbeDir
            two == probe.to_r = probe.from_r + 2 * ProbeDir
        IN  /\ probe.ret # 0 =>
                  IF probe.is_white # 0 THEN probe.to_r < probe.from_r
                                        ELSE probe.to_r > probe.from_r
            /\ probe.to_f = probe.from_f =>
                  (probe.ret # 0 <=>
                      /\ probe.capture = 0
                      /\ DestPiece = "."
                      /\ \/ one
                         \/ /\ two
                            /\ probe.from_r = home
                            /\ board[probe.from_r + ProbeDir][probe.from_f] = ".")
            /\ (probe.to_f # probe.from_f /\ probe.capture = 0) => probe.ret = 0

\* C8 witness: a two-square advance from the home row that is accepted.
C8_Witness ==
    /\ ValidMoveCalled
    /\ probe.piece = "p"
    /\ probe.from_r = 1
    /\ probe.to_r = 3
    /\ probe.to_f = probe.from_f
    /\ probe.ret = 1

\* A two-square advance from the home row refused because of the piece on
\* the square in between.
C8_BlockedReached ==
    /\ ValidMoveCalled
    /\ probe.piece = "P"
    /\ probe.from_r = 6
    /\ probe.to_r = 4
    /\ probe.to_f = probe.from_f
    /\ probe.capture = 0
    /\ DestPiece = "."
    /\ board[5][probe.from_f] # "."
    /\ probe.ret = 0

-----------------------------------------------------------------------------
(* Properties of apply_move, checked on the playback                       *)

LastMove == last.parsed.m

LastDir == IF last.is_white # 0 THEN -1 ELSE 1

\* On b a pawn of the colour stands on its en passant row at file f, an enemy
\* pawn beside it at file tf, and the square diagonally ahead at tf is empty.
EnPassantReady(b, is_white, f, tf) ==
    LET r == IF is_white # 0 THEN 3 ELSE 4
        dir == IF is_white # 0 THEN -1 ELSE 1
    IN  /\ abs(tf - f) = 1
        /\ b[r][f] = (IF is_white # 0 THEN "P" ELSE "p")
        /\ b[r][tf] = (IF is_white # 0 THEN "p" ELSE "P")
        /\ b[r + dir][tf] = "."

\* The latest step applied an en passant capture (without a promotion).
EnPassantApplied ==
    /\ Advanced
    /\ last.parsed.ret # 0
    /\ LastMove.promo = NUL
    /\ LastMove.from_r = (IF last.is_white # 0 THEN 3 ELSE 4)
    /\ LastMove.to_r = LastMove.from_r + LastDir
    /\ EnPassantReady(last.before, last.is_white, LastMove.from_f, LastMove.to_f)

\* C9: in every position where the en passant condition holds is_valid_move
\* accepts the diagonal move as a capture, and apply_move of it puts the pawn
\* on the destination, empties the origin, removes the enemy pawn beside the
\* origin and changes no other square.
C9_EnPassant ==
    /\ \A is_white \in {0, 1}, f \in Rows, tf \in Rows :
          EnPassantReady(board, is_white, f, tf) =>
              is_valid_move(board, IF is_white # 0 THEN "P" ELSE "p",
                            IF is_white # 0 THEN 3 ELSE 4, f,
                            IF is_white # 0 THEN 2 ELSE 5, tf, is_white, 1) = 1
    /\ EnPassantApplied =>
          \A sq \in Squares :
              board[sq[1]][sq[2]] =
                  IF sq = <<LastMove.to_r, LastMove.to_f>>
                  THEN (IF last.is_white # 0 THEN "P" ELSE "p")
                  ELSE IF sq = <<LastMove.from_r, LastMove.from_f>>
                          \/ sq = <<LastMove.from_r, LastMove.to_f>>
                       THEN "."
                       ELSE last.before[sq[1]][sq[2]]

\* C9 witness: the White pawn on (3,4) has taken the Black pawn of (3,3) en
\* passant on (2,3).
C9_Witness ==
    /\ EnPassantApplied
    /\ last.is_white = 1
    /\ last.before[3][4] = "P"
    /\ last.before[3][3] = "p"
    /\ LastMove = [from_r |-> 3, from_f |-> 4, to_r |-> 2, to_f |-> 3, promo |-> NUL]
    /\ board[3][3] = "."
    /\ board[2][3] = "P"

\* The token without one final + or #
Undecorated(san) ==
    IF san[Len(san)] \in {"+", "#"} THEN SubSeq(san, 1, Len(san) - 1) ELSE san

\* C10: a token that ends in =X gives promotion X (e8=Q with a White pawn on
\* e7: origin e7, destination e8, promotion Queen); apply_move with a
\* promotion puts the promotion piece in the mover's colour on the
\* destination and empties the origin, and without one puts the piece moved.
C10_Promotion ==
    Advanced =>
        LET core == Undecorated(last.san)
            n == Len(core)
            moved == last.before[LastMove.from_r][LastMove.from_f]
        IN  /\ (n >= 2 /\ core[n - 1] = "=") => LastMove.promo = core[n]
            /\ (\A i \in DOMAIN core : core[i] # "=") => LastMove.promo = NUL
            /\ (/\ core = <<"e", "8", "=", "Q">>
                /\ last.is_white = 1
                /\ last.before[1][4] = "P"
                /\ last.before[0][4] = ".") =>
                  /\ last.parsed.ret = 1
                  /\ LastMove = [from_r |-> 1, from_f |-> 4, to_r |-> 0, to_f |-> 4,
                                 promo |-> "Q"]
            /\ (last.parsed.ret # 0 /\ LastMove.promo # NUL) =>
                  /\ board[LastMove.to_r][LastMove.to_f] =
                        (IF last.is_white # 0 THEN toupper(LastMove.promo)
                                              ELSE tolower(LastMove.promo))
                  /\ is_white_piece(board[LastMove.to_r][LastMove.to_f])
                        = last.is_white
                  /\ board[LastMove.from_r][LastMove.from_f] = "."
            /\ (last.parsed.ret # 0 /\ LastMove.promo = NUL) =>
                  board[LastMove.to_r][LastMove.to_f] = moved

\* C10 witness: e8=Q played with a White pawn on e7: a White queen stands on
\* e8 and e7 is empty.
C10_Witness ==
    /\ Advanced
    /\ last.san = <<"e", "8", "=", "Q">>
    /\ last.is_white = 1
    /\ last.before[1][4] = "P"
    /\ last.parsed.ret = 1
    /\ board[0][4] = "Q"
    /\ board[1][4] = "."

\* A Black promotion: the piece placed is in lower case.
C10_BlackReached ==
    /\ Advanced
    /\ last.is_white = 0
    /\ last.parsed.ret = 1
    /\ LastMove.promo = "N"
    /\ board[LastMove.to_r][LastMove.to_f] = "n"

-----------------------------------------------------------------------------
(* Properties of castling, of the squares' contents and of the standard    *)
(* opening moves, checked on the playback                                   *)

ShortCastleTokens == {<<"O", "-", "O">>, <<"0", "-", "0">>}

LongCastleTokens == {<<"O", "-", "O", "-", "O">>, <<"0", "-", "0", "-", "0">>}

\* The king's move from the e-file of the colour's home row to file to_f
HomeRowMove(is_white, to_f) ==
    [from_r |-> IF is_white # 0 THEN 7 ELSE 0, from_f |-> 4,
     to_r |-> IF is_white # 0 THEN 7 ELSE 0, to_f |-> to_f, promo |-> NUL]

\* C11: O-O and 0-0, with at most one + or # behind, parse to the move
\* (home,4) -> (home,6) and O-O-O and 0-0-0 to (home,4) -> (home,2), home
\* being row 7 for White and row 0 for Black, with no promotion, on every
\* board and with the same answer whatever the board holds; no other token is
\* taken for castling.
C11_CastlingTokens ==
    Advanced =>
        LET core == Undecorated(last.san)
            castling == core \in ShortCastleTokens \cup LongCastleTokens
            want == HomeRowMove(last.is_white,
                                IF core \in ShortCastleTokens THEN 6 ELSE 2)
        IN  /\ castling =>
                  /\ last.parsed.ret = 1
                  /\ LastMove = want
                  /\ \A b \in {EmptyBoard, init_board} :
                        /\ parse_san(b, last.san, last.is_white, Move0).ret = 1
                        /\ parse_san(b, last.san, last.is_white, Move0).m = want
            /\ last.parsed.stage = "castle" => castling

\* C11 witness: Black plays 0-0-0# with no king on (0,4) and gets the move
\* (0,4) -> (0,2).
C11_Witness ==
    /\ Advanced
    /\ last.san = <<"0", "-", "0", "-", "0", "#">>
    /\ last.is_white = 0
    /\ last.before[0][4] # "k"
    /\ last.parsed.ret = 1
    /\ LastMove = HomeRowMove(0, 2)

\* The latest step applied a move of a king over two files.
KingTwoFiles ==
    /\ Advanced
    /\ last.parsed.ret # 0
    /\ toupper(last.before[LastMove.from_r][LastMove.from_f]) = "K"
    /\ abs(LastMove.from_f - LastMove.to_f) = 2

\* C12: after apply_move has moved a king two files the king stands on the
\* destination, the origin is empty, the mover's rook stands on file 5
\* (kingside) or 3 (queenside) of the row and the corner on file 7 or 0 is
\* empty, no other square changes; White's O-O with the king on (7,4) and a
\* rook on (7,7) leaves the rook on (7,5); a move that is not a two-file king
\* move changes no square but origin, destination and the square beside the
\* origin in the destination's file.
C12_CastlingRook ==
    /\ KingTwoFiles =>
          LET row == LastMove.from_r
              kingside == LastMove.to_f > LastMove.from_f
              rook_file == IF kingside THEN 5 ELSE 3
              corner == IF kingside THEN 7 ELSE 0
          IN  /\ LastMove.to_r = row
              /\ \A sq \in Squares :
                    board[sq[1]][sq[2]] =
                        IF sq = <<row, LastMove.to_f>>
                        THEN last.before[row][LastMove.from_f]
                        ELSE IF sq = <<row, rook_file>>
                        THEN (IF last.is_white # 0 THEN "R" ELSE "r")
                        ELSE IF sq = <<row, LastMove.from_f>> \/ sq = <<row, corner>>
                        THEN "."
                        ELSE last.before[sq[1]][sq[2]]
    /\ (/\ Advanced
        /\ last.is_white = 1
        /\ Undecorated(last.san) \in ShortCastleTokens
        /\ last.before[7][4] = "K"
        /\ last.before[7][7] = "R") =>
          (board[7][5] = "R" /\ board[7][7] = "." /\ board[7][6] = "K")
    /\ (Advanced /\ last.parsed.ret # 0 /\ ~KingTwoFiles) =>
          \A sq \in Squares :
              \/ sq = <<LastMove.from_r, LastMove.from_f>>
              \/ sq = <<LastMove.to_r, LastMove.to_f>>
              \/ sq = <<LastMove.from_r, LastMove.to_f>>
              \/ board[sq[1]][sq[2]] = last.before[sq[1]][sq[2]]

\* C12 witness: White has castled kingside with the king on (7,4) and the
\* rook on (7,7).
C12_Witness ==
    /\ KingTwoFiles
    /\ last.is_white = 1
    /\ last.before[7][4] = "K"
    /\ last.before[7][7] = "R"
    /\ last.before[7][5] = "."
    /\ board[7][5] = "R"
    /\ board[7][6] = "K"
    /\ board[7][7] = "."
    /\ board[7][4] = "."

\* Black has castled queenside.
C12_QueensideReached ==
    /\ KingTwoFiles
    /\ last.is_white = 0
    /\ LastMove.to_f = 2
    /\ board[0][3] = "r"
    /\ board[0][0] = "."

\* C14: every square of the board holds the empty value or one of the twelve
\* pieces, whatever tokens were accepted and applied.
C14_OnlyPieces ==
    \A sq \in Squares : board[sq[1]][sq[2]] \in {"."} \cup WhitePieces \cup BlackPieces

\* C15: apply_move of a move whose origin square is empty leaves every square
\* of the board as it was.
C15_EmptyOriginNoOp ==
    (/\ Advanced
     /\ last.parsed.ret # 0
     /\ last.before[LastMove.from_r][LastMove.from_f] = ".") => board = last.before

FileLetters == <<"a", "b", "c", "d", "e", "f", "g", "h">>

RankDigits == <<"1", "2", "3", "4", "5", "6", "7", "8">>

\* The token without a final + or # and without the promotion suffix
CoreOf(san) ==
    LET u == Undecorated(san)
    IN  IF \E i \in DOMAIN u : u[i] = "="
        THEN SubSeq(u, 1, (CHOOSE i \in DOMAIN u :
                              u[i] = "=" /\ \A j \in 1 .. (i - 1) : u[j] # "=") - 1)
        ELSE u

\* C20: from the initial position with White to move e4 parses to
\* (6,4) -> (4,4) without promotion and Nf3 to (7,6) -> (5,5); the
\* destination of every accepted non-castling token is row 8 minus the rank
\* digit and file letter minus 'a' of its last two characters, and a single
\* pseudo-legal mover is the origin.
C20_OpeningMoves ==
    /\ (/\ Advanced
        /\ last.before = init_board
        /\ last.is_white = 1
        /\ last.san = <<"e", "4">>) =>
          /\ last.parsed.ret = 1
          /\ LastMove = [from_r |-> 6, from_f |-> 4, to_r |-> 4, to_f |-> 4,
                         promo |-> NUL]
    /\ (/\ Advanced
        /\ last.before = init_board
        /\ last.is_white = 1
        /\ last.san = <<"N", "f", "3">>) =>
          /\ last.parsed.ret = 1
          /\ LastMove = [from_r |-> 7, from_f |-> 6, to_r |-> 5, to_f |-> 5,
                         promo |-> NUL]
    /\ (Resolved /\ last.parsed.ret # 0) =>
          LET core == CoreOf(last.san)
              n == Len(core)
          IN  /\ n >= 2
              /\ core[n] \in Range(RankDigits)
              /\ core[n - 1] \in Range(FileLetters)
              /\ LastMove.to_r = 8 - Pos(RankDigits, core[n])
              /\ LastMove.to_f = Pos(FileLetters, core[n - 1]) - 1
    /\ (Resolved /\ Cardinality(CandSet) = 1) =>
          (last.parsed.ret = 1 /\ Origin \in CandSet)

\* C20 witness: Nf3 is the first token: the knight of (7,6) stands on (5,5).
C20_Witness ==
    /\ Advanced
    /\ index = 1
    /\ last.before = init_board
    /\ last.san = <<"N", "f", "3">>
    /\ last.parsed.ret = 1
    /\ Cardinality(CandSet) = 1
    /\ board[5][5] = "N"
    /\ board[7][6] = "."

-----------------------------------------------------------------------------
(* Properties of the tokenizer, checked on the direct calls                *)

ResultTokens ==
    {<<"1", "-", "0">>, <<"0", "-", "1">>, <<"*">>,
     <<"1", "/", "2", "-", "1", "/", "2">>}

\* The elements of the set of indices in increasing order, as a sequence of
\* the characters of s at them
Pick(s, indices) ==
    [k \in 1 .. Cardinality(indices) |->
        s[CHOOSE i \in indices : Cardinality({j \in indices : j <= i}) = k]]

\* Position i of the line lies in a line comment: behind a ';' with no
\* newline from the ';' up to i
InLineComment(line, i) ==
    \E j \in 1 .. i : line[j] = ";" /\ \A k \in j .. i : line[k] # "\n"

\* The mode opened by open and closed by close is active when position i is
\* read: the latest of the two read before i is an open
ModeActive(line, i, open, close) ==
    \E j \in 1 .. (i - 1) :
        /\ line[j] = open
        /\ ~InLineComment(line, j)
        /\ \A k \in (j + 1) .. (i - 1) : line[k] = close => InLineComment(line, k)

LineMarkers == {"{", "}", "(", ")", ";"}

\* The positions whose characters clean_line is to keep
KeptPositions(line) ==
    {i \in DOMAIN line :
        /\ line[i] \notin LineMarkers
        /\ ~InLineComment(line, i)
        /\ ~ModeActive(line, i, "{", "}")
        /\ ~ModeActive(line, i, "(", ")")}

\* C18: the output of clean_line is, in order, the characters that are none
\* of { } ( ) ; and are read outside a line comment while neither the comment
\* mode ('{' sets, '}' clears) nor the variation mode ('(' sets, ')' clears)
\* is active; it holds none of { } ( ) ; and cleaning it again changes
\* nothing.
C18_CleanLine ==
    probe.kind = "clean_line" =>
        /\ probe.out = Pick(probe.input, KeptPositions(probe.input))
        /\ \A i \in DOMAIN probe.out : probe.out[i] \notin LineMarkers
        /\ clean_line(probe.out) = probe.out

\* C18 witness: the '{' behind the ';' is discarded with the line comment and
\* opens no comment: the next line is kept.
C18_Witness ==
    /\ probe.kind = "clean_line"
    /\ probe.input = <<"a", ";", "{", "\n", "b">>
    /\ probe.out = <<"a", "\n", "b">>

\* A ')' closes the variation opened twice: there is no nesting depth.
C18_NoNestingReached ==
    /\ probe.kind = "clean_line"
    /\ probe.input = <<"(", "(", "a", ")", "b">>
    /\ probe.out = <<"b">>

Glyphs == {"!", "?"}

\* The number of leading characters of s that satisfy Test
LeadingRun(s, Test(_)) ==
    CHOOSE n \in 0 .. Len(s) :
        /\ \A i \in 1 .. n : Test(s[i])
        /\ n < Len(s) => ~Test(s[n + 1])

IsDigit(c) == c \in Range(Digits)

IsDot(c) == c = "."

NoGlyph(c) == c \notin Glyphs

DropFirst(s, n) == SubSeq(s, n + 1, Len(s))

\* The token without a move number: digits followed by at least one dot
WithoutMoveNumber(token) ==
    LET d == LeadingRun(token, IsDigit)
        dots == LeadingRun(DropFirst(token, d), IsDot)
    IN  IF d > 0 /\ dots > 0 THEN DropFirst(token, d + dots) ELSE token

\* The token without the glyphs at its end
WithoutTrailingGlyphs(s) ==
    LET n == CHOOSE k \in 0 .. Len(s) :
                /\ \A i \in (k + 1) .. Len(s) : s[i] \in Glyphs
                /\ k > 0 => s[k] \notin Glyphs
    IN  SubSeq(s, 1, n)

\* C17 as stated: the token emitted is the input without its move number and
\* without its trailing glyphs, every other character kept, and none is
\* emitted exactly when nothing remains.
C17_AsStated ==
    (probe.kind = "extract_san_token" /\ probe.out_size = MOVE_TEXT_LEN) =>
        LET rest == WithoutTrailingGlyphs(WithoutMoveNumber(probe.input))
        IN  /\ probe.ret = 0 <=> rest = <<>>
            /\ probe.ret # 0 => probe.out = rest

\* C17 amended: the scan starts behind the move number (digits followed by
\* at least one dot) or, when the token begins with no digit, behind its
\* leading dots; the token emitted is what stands from there up to the first
\* '!' or '?' or the end, cut to out_size - 1 characters, and none is emitted
\* exactly when that is empty; an emitted token is not empty and holds no '!'
\* and no '?'; a token of digits not followed by a dot is left intact.
C17_ExtractSanToken ==
    probe.kind = "extract_san_token" =>
        LET token == probe.input
            d == LeadingRun(token, IsDigit)
            start == IF d > 0 THEN WithoutMoveNumber(token)
                     ELSE DropFirst(token, LeadingRun(token, IsDot))
            kept == SubSeq(start, 1, LeadingRun(start, NoGlyph))
        IN  /\ probe.ret = 0 <=> kept = <<>>
            /\ probe.ret # 0 =>
                  /\ probe.out = strncpy(kept, probe.out_size - 1)
                  /\ probe.out # <<>>
                  /\ \A i \in DOMAIN probe.out : probe.out[i] \notin Glyphs
            /\ (/\ d > 0
                /\ At(token, d) # "."
                /\ \A i \in DOMAIN token : token[i] \notin Glyphs
                /\ Len(token) < probe.out_size) =>
                  (probe.ret = 1 /\ probe.out = token)

\* C17 witness: 1.e!? gives e, and 1-0 is left intact.
C17_Witness ==
    /\ probe.kind = "extract_san_token"
    /\ probe.out_size = MOVE_TEXT_LEN
    /\ probe.input = <<"1", ".", "e", "!", "?">>
    /\ probe.ret = 1
    /\ probe.out = <<"e">>

\* A token with a glyph in the middle loses what stands behind the glyph.
C17_InnerGlyphReached ==
    /\ probe.kind = "extract_san_token"
    /\ probe.out_size = MOVE_TEXT_LEN
    /\ probe.input = <<"e", "!", "e">>
    /\ probe.ret = 1
    /\ probe.out = <<"e">>

\* Indices where a whitespace-delimited token of s starts
TokenStarts(s) ==
    {i \in DOMAIN s : s[i] \notin Delims /\ (i = 1 \/ s[i - 1] \in Delims)}

\* The whitespace-delimited token of s that starts at i
TokenAt(s, i) ==
    SubSeq(s, i, CHOOSE j \in i .. Len(s) :
                    /\ \A k \in i .. j : s[k] \notin Delims
                    /\ (j = Len(s) \/ s[j + 1] \in Delims))

\* The cleaned token at start i, the empty string when none is emitted
CleanedAt(s, i) ==
    LET ex == extract_san_token(TokenAt(s, i), <<>>, MOVE_TEXT_LEN)
    IN  IF ex.ret # 0 THEN ex.out ELSE <<>>

\* C16: build_move_list returns, in input order, the non-empty cleaned tokens
\* in front of the first cleaned token that is a result token, the first
\* max_moves of them at most; result_out is that result token, or empty when
\* there is none; no returned token is a result token.
C16_BuildMoveList ==
    probe.kind = "build_move_list" =>
        LET s == probe.input
            results == {i \in TokenStarts(s) : CleanedAt(s, i) \in ResultTokens}
            first == IF results = {} THEN Len(s) + 1
                     ELSE CHOOSE i \in results : \A j \in results : i <= j
            movers == {i \in TokenStarts(s) : i < first /\ CleanedAt(s, i) # <<>>}
            all == [k \in 1 .. Cardinality(movers) |->
                       CleanedAt(s, CHOOSE i \in movers :
                                       Cardinality({j \in movers : j <= i}) = k)]
        IN  /\ probe.moves = strncpy(all, probe.max_moves)
            /\ probe.count = Len(probe.moves)
            /\ probe.count <= probe.max_moves
            /\ \A k \in DOMAIN probe.moves : probe.moves[k] \notin ResultTokens
            /\ probe.result_out = (IF results = {} THEN <<>> ELSE CleanedAt(s, first))

\* C16 witness: a numbered move, an annotated move and a result: the two
\* cleaned moves come back and the result apart.
C16_Witness ==
    /\ probe.kind = "build_move_list"
    /\ probe.max_moves = MAX_MOVES
    /\ probe.input = <<" ", "1", ".", "e", "4", " ", "e", "5", "!", "?", " ", "1", "-", "0">>
    /\ probe.count = 2
    /\ probe.moves = << <<"e", "4">>, <<"e", "5">> >>
    /\ probe.result_out = <<"1", "-", "0">>

\* More tokens than max_moves in front of the result: the list is cut and the
\* result is found all the same.
C16_CapReached ==
    /\ probe.kind = "build_move_list"
    /\ probe.max_moves = MaxMovesArg
    /\ probe.count = MaxMovesArg
    /\ probe.result_out = <<"*">>
    /\ Cardinality({i \in TokenStarts(probe.input) :
                      CleanedAt(probe.input, i) \notin ResultTokens \cup {<<>>}})
          > MaxMovesArg

-----------------------------------------------------------------------------
(* Properties of play_game as a whole                                       *)

\* C13: the first move applied to the board is made with White to move and
\* any two moves applied one after the other are made with opposite sides to
\* move, in the automatic playback and in replay_moves_to_index, also when
\* tokens in between fail to parse.
C13_StrictAlternation ==
    /\ applied # <<>> => applied[1].is_white = 1
    /\ \A k \in 1 .. (Len(applied) - 1) :
          applied[k + 1].is_white # applied[k].is_white

\* The result token of the movetext: the first cleaned token that is one,
\* the empty string when there is none
ResultInMovetext(s) ==
    LET results == {i \in TokenStarts(s) : CleanedAt(s, i) \in ResultTokens}
    IN  IF results = {} THEN <<>>
        ELSE CleanedAt(s, CHOOSE i \in results : \A j \in results : i <= j)

WhiteWins == <<"1", "-", "0">>

BlackWins == <<"0", "-", "1">>

DrawnGame == <<"1", "/", "2", "-", "1", "/", "2">>

\* C19: the result play_game goes by is the result token of the movetext
\* when there is one and the header's Result otherwise; the loser's king is
\* presented exactly at the end of the list of a game with result 1-0 or
\* 0-1, Black's for 1-0 and White's for 0-1; both kings get the draw
\* presentation exactly at the end of the list of a game with result
\* 1/2-1/2; with any other result neither is presented.
C19_ResultPresentation ==
    LET in_text == ResultInMovetext(move_buffer)
        deciding == IF in_text # <<>> THEN in_text ELSE header_result
        at_end == phase = "review" /\ review_index = Len(moves)
    IN  /\ result = deciding
        /\ show_loser_king = (IF at_end /\ deciding \in {WhiteWins, BlackWins}
                              THEN 1 ELSE 0)
        /\ show_draw_kings = (IF at_end /\ deciding = DrawnGame THEN 1 ELSE 0)
        /\ show_loser_king # 0 =>
              loser_is_white = (IF deciding = BlackWins THEN 1 ELSE 0)

\* C19 witness: the movetext ends in 1-0 and the header says 0-1: at the end
\* of the game Black's king is the loser's.
C19_Witness ==
    /\ phase = "review"
    /\ Len(moves) = 3
    /\ review_index = 3
    /\ ResultInMovetext(move_buffer) = WhiteWins
    /\ header_result = BlackWins
    /\ result = WhiteWins
    /\ show_loser_king = 1
    /\ show_draw_kings = 0
    /\ loser_is_white = 0

\* No result in the movetext and a drawn game in the header: both kings are
\* presented, again after a step back and forth in the review.
C19_HeaderDrawReached ==
    /\ phase = "review"
    /\ ResultInMovetext(move_buffer) = <<>>
    /\ header_result = DrawnGame
    /\ show_draw_kings = 1
    /\ show_loser_king = 0
    /\ last.kind = "replay"

\* The movetext ends in * and the header names a winner: nothing is presented
C19_OtherResultReached ==
    /\ phase = "review"
    /\ review_index = Len(moves)
    /\ result = <<"*">>
    /\ header_result = WhiteWins
    /\ show_loser_king = 0
    /\ show_draw_kings = 0

\* C21: whenever the playback has consumed the first index tokens the board
\* is the board replay_moves_to_index produces for index, so that LEFT and
\* then RIGHT while paused bring back the board shown before.
C21_PlaybackEqualsReplay ==
    phase = "playback" =>
        board = replay_moves_to_index(moves, Len(moves), index).board

\* C22: no later token of the game is parsed or applied after the first
\* token parse_san has failed on: the tokens applied are the first ones of
\* the list without a gap, and a token is parsed only when every token in
\* front of it has been applied.
C22_StopAfterFailure ==
    /\ \A k \in DOMAIN applied : applied[k].token = k - 1
    /\ (phase = "playback" /\ last.kind = "advance") => index - Len(applied) <= 1

\* C27: 0 <= index <= move_count and 0 <= review_index <= move_count; index
\* changes by one at a time: forward by an automatic advance taken with
\* paused = 0 and index < move_count, or by LEFT or RIGHT taken with
\* paused = 1, which leave the board replay_moves_to_index builds for the
\* new index; review_index changes by one at a time with the board rebuilt
\* the same way.
C27_IndexSteps ==
    /\ index \in 0 .. Len(moves)
    /\ review_index \in 0 .. Len(moves)
    /\ [][/\ index' \in 0 .. Len(moves')
          /\ review_index' \in 0 .. Len(moves')
          /\ index' # index =>
                /\ phase = "playback"
                /\ \/ /\ paused = 0
                      /\ index < Len(moves)
                      /\ index' = index + 1
                      /\ last'.kind = "advance"
                      /\ last'.san = moves[index + 1]
                   \/ /\ paused # 0
                      /\ paused' # 0
                      /\ index' \in {index - 1, index + 1}
                      /\ last'.kind = "replay"
                      /\ board' = replay_moves_to_index(moves, Len(moves), index').board
          /\ (last' # last /\ last'.kind = "advance") =>
                paused = 0 /\ index < Len(moves) /\ index' \in {index, index + 1}
          /\ (phase = "review" /\ review_index' # review_index) =>
                /\ review_index' \in {review_index - 1, review_index + 1}
                /\ board' = replay_moves_to_index(moves, Len(moves), review_index').board
       ]_vars

\* C27 witness: paused in the middle of the game, one step back has rebuilt
\* the board
C27_Witness ==
    /\ phase = "playback"
    /\ paused = 1
    /\ Len(moves) = 3
    /\ index = 1
    /\ last.kind = "replay"
    /\ last.index = 1
    /\ Len(applied) = 1

\* RIGHT has stepped to the end of the list while paused
C27_RightToEndReached ==
    /\ phase = "playback"
    /\ paused = 1
    /\ Len(moves) = 3
    /\ index = 3
    /\ last.kind = "replay"

\* LEFT in the review loop has stepped back to the initial position
C27_ReviewStartReached ==
    /\ phase = "review"
    /\ Len(moves) = 3
    /\ review_index = 0
    /\ board = init_board

\* The number of squares of b that hold a piece of the colour
PieceCount(b, is_white) ==
    Cardinality({sq \in Squares : b[sq[1]][sq[2]] # "."
                                  /\ is_white_piece(b[sq[1]][sq[2]]) = is_white})

\* C23: no step of apply_move on an accepted token raises the number of
\* pieces of a colour (it changes it by 0 or -1), and a piece that is new on
\* a square has come from the move's origin or, in castling, is the rook
\* that stood in the corner.
C23_NoNewPieces ==
    (Advanced /\ last.parsed.ret # 0) =>
        /\ \A is_white \in {0, 1} :
              PieceCount(board, is_white) - PieceCount(last.before, is_white)
                 \in {0, -1}
        /\ \A sq \in Squares :
              (board[sq[1]][sq[2]] # "."
                 /\ board[sq[1]][sq[2]] # last.before[sq[1]][sq[2]]) =>
                    \/ /\ sq = <<LastMove.to_r, LastMove.to_f>>
                       /\ last.before[LastMove.from_r][LastMove.from_f] # "."
                    \/ /\ KingTwoFiles
                       /\ sq = <<LastMove.from_r,
                                 IF LastMove.to_f > LastMove.from_f THEN 5 ELSE 3>>
                       /\ last.before[LastMove.from_r]
                                     [IF LastMove.to_f > LastMove.from_f THEN 7 ELSE 0]
                             = board[sq[1]][sq[2]]

\* White has castled short with the corner empty: a seventeenth White piece
C23_NewRookReached ==
    /\ KingTwoFiles
    /\ last.is_white = 1
    /\ last.before[7][7] = "."
    /\ last.before[7][5] = "."
    /\ board[7][5] = "R"
    /\ PieceCount(last.before, 1) = 16
    /\ PieceCount(board, 1) = 17

-----------------------------------------------------------------------------
(* The disambiguation hint, read from the text of the token                 *)

PieceLetters == {"R", "N", "B", "Q", "K"}

\* The token names its piece with a letter
HasPieceLetter(san) == CoreOf(san)[1] \in PieceLetters

\* The positions of the token's core where a capture marker stands: behind
\* the piece letter and in front of the destination
MarkerPositions(san) ==
    LET core == CoreOf(san)
    IN  {i \in (IF HasPieceLetter(san) THEN 2 ELSE 1) .. (Len(core) - 2) :
            core[i] = "x"}

\* The text between the piece letter, if any, and the first capture marker
\* or, without one, the destination
HintOf(san) ==
    LET core == CoreOf(san)
        first == IF HasPieceLetter(san) THEN 2 ELSE 1
        marks == MarkerPositions(san)
        stop == IF marks = {} THEN Len(core) - 1
                ELSE CHOOSE i \in marks : \A j \in marks : i <= j
    IN  SubSeq(core, first, stop - 1)

\* The piece the token moves, in the mover's colour; a castling token moves
\* the king
MoverPiece(san, is_white) ==
    LET letter == IF Undecorated(san) \in ShortCastleTokens \cup LongCastleTokens
                  THEN "K"
                  ELSE IF HasPieceLetter(san) THEN CoreOf(san)[1] ELSE "P"
    IN  IF is_white # 0 THEN letter ELSE Lowers[Pos(Uppers, letter)]

\* The file a hint letter names and the row a hint digit names
FileOf(c) == Pos(Lowers, c) - 1

RowOf(c) == 8 - (Pos(Digits, c) - 1)

\* The hints the statement is about: none, a file letter, a rank digit, or
\* a letter and a digit
PlainHint(hint) ==
    \/ hint = <<>>
    \/ Len(hint) = 1 /\ hint[1] \in Range(Lowers) \cup Range(Digits)
    \/ Len(hint) = 2 /\ hint[1] \in Range(Lowers) /\ hint[2] \in Range(Digits)

\* The square satisfies the hint as stated
StatedHintAllows(hint, sq) ==
    /\ \A i \in DOMAIN hint :
          /\ hint[i] \in Range(Lowers) => sq[2] = FileOf(hint[i])
          /\ hint[i] \in Range(Digits) => sq[1] = RowOf(hint[i])

\* The same with the digit 9 narrowing nothing
HintAllows(hint, sq) ==
    /\ \A i \in DOMAIN hint :
          /\ hint[i] \in Range(Lowers) => sq[2] = FileOf(hint[i])
          /\ hint[i] \in Range(Digits) \ {"9"} => sq[1] = RowOf(hint[i])

\* The squares a token's origin may be: they hold the mover's piece, satisfy
\* the hint and pass is_valid_move to the destination with the capture flag
\* of the token
StatedOrigins(Allows(_, _)) ==
    {sq \in Squares :
        /\ last.before[sq[1]][sq[2]] = MoverPiece(last.san, last.is_white)
        /\ Allows(HintOf(last.san), sq)
        /\ is_valid_move(last.before, MoverPiece(last.san, last.is_white),
                         sq[1], sq[2], LastMove.to_r, LastMove.to_f, last.is_white,
                         IF MarkerPositions(last.san) # {} THEN 1 ELSE 0) # 0}

C26_RankHintReached ==
    /\ Resolved
    /\ last.san = <<"N", "1", "e", "2">>
    /\ last.before[5][2] = "N"
    /\ is_valid_move(last.before, "N", 5, 2, 6, 4, 1, 0) # 0
    /\ last.parsed.ret = 1
    /\ Origin = <<7, 6>>

\* The square hint g1 picks the knight on g1
C26_SquareHintReached ==
    /\ Resolved
    /\ last.san = <<"N", "g", "1", "e", "2">>
    /\ last.before[5][2] = "N"
    /\ last.parsed.ret = 1
    /\ Origin = <<7, 6>>

\* A pawn capture: the file of the capturing pawn is the hint
C26_PawnFileReached ==
    /\ Resolved
    /\ last.san = <<"e", "x", "d", "5">>
    /\ last.parsed.ret = 1
    /\ last.parsed.capture = 1
    /\ Origin[2] = 4

\* The hint 9 names no rank of the board and is passed over: the knight of
\* g1 goes to e2
C26_NinthRankReached ==
    /\ Resolved
    /\ last.san = <<"N", "9", "e", "2">>
    /\ last.parsed.ret = 1
    /\ Origin = <<7, 6>>

-----------------------------------------------------------------------------
(* Properties of the fixed-size arrays                                      *)

\* C24: init_board writes only the 64 bytes of board; for every token
\* build_move_list emits (31 characters at most) parse_san writes no more
\* than 16 bytes into clean_san, no more than 4 into hint_str and no more
\* than 16 entries into candidates, and uses no negative index on clean_san.
C24_WritesInBounds ==
    /\ probe.kind = "init_board" =>
          probe.written \subseteq 0 .. (BOARD_SIZE * BOARD_SIZE - 1)
    /\ probe.kind = "parse_san" =>
          /\ Len(probe.san) \in 1 .. (MOVE_TEXT_LEN - 1)
          /\ probe.used.clean_san <= CLEAN_SAN_LEN
          /\ probe.used.hint_str <= HINT_STR_LEN
          /\ probe.used.candidates <= MAX_CANDIDATES
          /\ probe.used.lowest >= 0

\* A token of 31 characters has been copied into clean_san
C24_CleanSanOverrunReached ==
    /\ probe.kind = "parse_san"
    /\ Len(probe.san) = MOVE_TEXT_LEN - 1
    /\ probe.used.clean_san = MOVE_TEXT_LEN

\* A token that fits clean_san has a hint of more than four characters
C24_HintOverrunReached ==
    /\ probe.kind = "parse_san"
    /\ probe.used.clean_san <= CLEAN_SAN_LEN
    /\ probe.used.hint_str > HINT_STR_LEN

\* init_board has written the byte behind the board
C24_InitBoardOverrunReached ==
    /\ probe.kind = "init_board"
    /\ BOARD_SIZE * BOARD_SIZE \in probe.written

\* A token that stays inside all three arrays
C24_InsideReached ==
    /\ probe.kind = "parse_san"
    /\ probe.san = <<"N", "a", "e", "5">>
    /\ probe.used = [clean_san |-> 5, lowest |-> 2, hint_str |-> 1, candidates |-> 0]

-----------------------------------------------------------------------------
(* Properties of the two engines                                            *)

\* C25: is_valid_move and is_in_check of chess_screensaver_sdl.c return the
\* same truth value as those of chess_viewer.c, whatever nonzero value
\* isupper returns for an uppercase letter; the screensaver's is_in_check
\* reports a Black king attacked by a White piece and its is_valid_move
\* never lets White capture a White piece.
C25_SameEngine ==
    /\ probe.kind \in {"is_valid_move", "is_in_check"} =>
          (probe.screensaver # 0) = (probe.viewer # 0)
    /\ (/\ probe.kind = "is_valid_move"
        /\ probe.is_white = 1
        /\ probe.capture = 1
        /\ board[probe.to_r][probe.to_f] \in WhitePieces) => probe.screensaver = 0
    /\ (/\ probe.kind = "is_in_check"
        /\ probe.is_white = 0
        /\ \E kr \in Rows, kf \in Rows, r \in Rows, f \in Rows :
              /\ board[kr][kf] = "k"
              /\ board[r][f] \in WhitePieces
              /\ is_valid_move(board, board[r][f], r, f, kr, kf, 1, 1) # 0)
          => probe.screensaver # 0

\* With isupper returning 256 the screensaver does not see the check a
\* White rook gives the Black king
C25_CheckMissedReached ==
    /\ probe.kind = "is_in_check"
    /\ probe.is_white = 0
    /\ probe.upper = 256
    /\ board[3][4] = "R"
    /\ board[3][0] = "k"
    /\ probe.viewer = 1
    /\ probe.screensaver = 0

\* With isupper returning 256 the screensaver lets a White rook take a White
\* knight
C25_OwnPieceTakenReached ==
    /\ probe.kind = "is_valid_move"
    /\ probe.is_white = 1
    /\ probe.capture = 1
    /\ probe.upper = 256
    /\ probe.piece = "R"
    /\ board[probe.to_r][probe.to_f] = "N"
    /\ probe.viewer = 0
    /\ probe.screensaver = 1

\* With isupper returning 1 the two engines agree on a capture
C25_AgreeReached ==
    /\ probe.kind = "is_valid_move"
    /\ probe.upper = 1
    /\ probe.capture = 1
    /\ probe.piece = "R"
    /\ board[probe.to_r][probe.to_f] = "n"
    /\ probe.viewer = 1
    /\ probe.screensaver = 1

-----------------------------------------------------------------------------
(* Properties of load_games                                                 *)

RECURSIVE FileText(_)
\* The text of the lines read, one after the other
FileText(names) ==
    IF names = <<>> THEN <<>> ELSE FileLines[Head(names)] \o FileText(Tail(names))

\* How often the character stands in the string
Occurrences(s, c) == Cardinality({i \in DOMAIN s : s[i] = c})

\* The same over the move buffers of the games pushed and the buffer being
\* filled
RECURSIVE OccurrencesInGames(_, _)
OccurrencesInGames(games, c) ==
    IF games = <<>> THEN 0
    ELSE Occurrences(Head(games).moves, c) + OccurrencesInGames(Tail(games), c)

\* The letters that stand inside the comments and variations of the lines
CommentLetters == {"y", "z", "p", "q"}

\* The position of the file's text lies between a '{' and its '}' or between
\* a '(' and its ')', wherever the lines end
InsideComment(text, i) ==
    ModeActive(text, i, "{", "}") \/ ModeActive(text, i, "(", ")")

\* C28: no character that stands between a '{' and its closing '}' or
\* between a '(' and its closing ')' of the file reaches a move buffer, also
\* when the two markers stand on different lines: a letter is in the move
\* buffers no more often than it stands outside comments in the file.
C28_CommentsStayOut ==
    probe.kind \in {"load_games", "loaded"} =>
        LET text == FileText(probe.read)
        IN  \A c \in CommentLetters :
               OccurrencesInGames(probe.games, c) + Occurrences(probe.move_buffer, c)
                  <= Cardinality({i \in DOMAIN text :
                                     text[i] = c /\ ~InsideComment(text, i)})

\* A line without comments is appended whole, behind a space
C28_OneLineReached ==
    /\ probe.kind = "load_games"
    /\ probe.read = <<"Event", "Moves">>
    /\ probe.move_buffer = <<" ", "e", "4", " ", "e", "5", "\n">>

\* The comment is closed on the line after the one that opens it: the text
\* in front of the '}' is in the move buffer
C28_TwoLinesReached ==
    /\ probe.kind = "load_games"
    /\ probe.read = <<"Event", "BraceOpens", "BraceCloses">>
    /\ probe.move_buffer = <<" ", "d", "4", " ", " ", "z", " ", "d", "5", "\n">>

MovetextLines == {"Moves", "BraceOpens", "BraceCloses", "ParenOpens", "ParenCloses"}

\* The lines whose tag name is exactly Event
EventLines(names) == {i \in DOMAIN names : names[i] = "Event"}

\* The last line of the game that starts at the Event line e
GameEnd(names, e) ==
    IF \E i \in EventLines(names) : i > e
    THEN (CHOOSE i \in EventLines(names) :
             i > e /\ \A j \in EventLines(names) : j > e => i <= j) - 1
    ELSE Len(names)

\* The movetext lines of the game that starts at e
GameMoves(names, e) ==
    {i \in (e + 1) .. GameEnd(names, e) : names[i] \in MovetextLines}

\* The tag lines between the Event line e and the game's movetext
GameTags(names, e) ==
    {names[i] : i \in {j \in (e + 1) .. GameEnd(names, e) :
                          \A k \in GameMoves(names, e) : j < k}}

\* No tag line stands behind a movetext line of its game
TagsFirst(names) ==
    \A e \in EventLines(names) :
        \A i \in (e + 1) .. GameEnd(names, e) :
            names[i] \in MovetextLines \/ \A k \in GameMoves(names, e) : i < k

\* White, Black, year and Result of the game that starts at e, as its tag
\* lines give them
GameHeader(names, e) ==
    LET tags == GameTags(names, e)
    IN  [white |-> IF "White" \in tags THEN <<"w">> ELSE <<"W", "h", "i", "t", "e">>,
         black |-> IF "Black" \in tags THEN <<"b">> ELSE <<"B", "l", "a", "c", "k">>,
         year |-> IF "Date" \in tags THEN <<"1", "9", "9", "9">> ELSE <<>>,
         result |-> IF "Result" \in tags THEN <<"1", "-", "0">> ELSE <<>>]

\* The Event lines of the games that have movetext, in file order
GamesWithMoves(names) ==
    LET starts == {e \in EventLines(names) : GameMoves(names, e) # {}}
    IN  [k \in 1 .. Cardinality(starts) |->
            CHOOSE e \in starts : Cardinality({x \in starts : x <= e}) = k]

\* C29: a game starts, and the collected values are reset, only at a line
\* whose tag name is exactly Event; the games pushed are the games with
\* movetext, in order, each with the White, Black, year and Result of the
\* tag lines between its own Event line and its movetext, whatever other tag
\* lines stand among them.
C29_GamesAndHeaders ==
    (probe.kind = "loaded" /\ TagsFirst(probe.read)) =>
        LET starts == GamesWithMoves(probe.read)
        IN  /\ Len(probe.games) = Len(starts)
            /\ \A k \in DOMAIN starts :
                  [f \in {"white", "black", "year", "result"} |-> probe.games[k][f]]
                     = GameHeader(probe.read, starts[k])

\* Two games, the first with a White tag, the second without: the second
\* does not inherit the name
C29_ResetReached ==
    /\ probe.kind = "loaded"
    /\ probe.read = <<"Event", "White", "Moves", "Event", "Moves">>
    /\ Len(probe.games) = 2
    /\ probe.games[1].white = <<"w">>
    /\ probe.games[2].white = <<"W", "h", "i", "t", "e">>

\* An EventDate line behind the White tag: the name collected is lost
C29_EventDateReached ==
    /\ probe.kind = "loaded"
    /\ probe.read = <<"Event", "White", "EventDate", "Moves">>
    /\ Len(probe.games) = 1
    /\ probe.games[1].white = <<"W", "h", "i", "t", "e">>

-----------------------------------------------------------------------------
(* Termination of play_game when no event arrives                           *)

\* play_game has returned 0 with every token consumed and the presentation
\* switched off
ReturnedClean ==
    /\ phase = "returned"
    /\ quit = 0
    /\ index = Len(moves)
    /\ show_loser_king = 0
    /\ show_draw_kings = 0
    /\ dim_board = 0

\* A step that consumes the next token of the game, and only that one
ConsumesNextToken ==
    /\ phase = "playback"
    /\ index < Len(moves)
    /\ index' = index + 1
    /\ last'.kind = "advance"
    /\ last'.san = moves[index + 1]
    /\ moves' = moves

\* C30: with no key and no quit event and an advancing clock, play_game
\* returns: every step that changes index consumes the next token, parsed
\* or not, so index reaches move_count after move_count such steps; the
\* function returns only out of the end-of-game pause, and when it has
\* returned quit is 0 (it returns 0, never 1) and show_loser_king,
\* show_draw_kings and dim_board are 0.
C30_QuietTermination ==
    /\ <>ReturnedClean
    /\ [](phase = "returned" => ReturnedClean)
    /\ [][/\ index' # index => ConsumesNextToken
          /\ (phase' = "returned" /\ phase # "returned") => phase = "review"]_vars

\* With the keys of SpecGame: quit is set only by a step that handles
\* SDL_QUIT or SDLK_ESCAPE, and play_game returns in that step
QuitOnlyByEvent ==
    [][quit' # quit =>
          /\ quit' = 1
          /\ phase' = "returned"
          /\ \/ KeyQuit
             \/ ReviewQuit
             \/ AutoAdvanceWith("quit")
             \/ EndOfPlaybackWith(1)]_vars

\* A game with a token that does not parse and a decisive result has been
\* played to its end and play_game has returned
C30_Witness ==
    /\ ReturnedClean
    /\ Len(moves) >= 3
    /\ Len(applied) < Len(moves)
    /\ has_loser # 0

\* The same for a game with no result and no token
C30_EmptyGameReached ==
    /\ ReturnedClean
    /\ Len(moves) = 0
    /\ has_loser = 0
    /\ is_draw = 0

\* The presentation is on while the pause runs
C30_PauseReached ==
    /\ phase = "review"
    /\ show_draw_kings = 1
    /\ index = Len(moves)
    /\ Len(applied) < Len(moves)

=============================================================================
